---- MODULE Spec2Model ----
(***************************************************************************)
(* SentinelSweep-SOC: the rate-limited concurrent scanner, the two service *)
(* triage engines, the risk scoring engine, the orchestrator that joins    *)
(* them and the reporter with its baselines and drift detection.           *)
(*                                                                         *)
(* Python values are modelled as follows: a dict is a record; a key that   *)
(* is missing from a dict has the value ABSENT; Python's None is the value *)
(* NONE; an address is the tuple of its four octets.  Where the order of   *)
(* a dict's keys matters (the reporter's hash) the dict is the sequence of *)
(* its <<key, value>> pairs.                                               *)
(***************************************************************************)
EXTENDS Integers, Sequences, FiniteSets, TLC

\* ------------------------------------------------------------------------
\* Bounds of the model
\* ------------------------------------------------------------------------
MaxOpenPorts == 3   \* longest open_ports list given to assess_exposure
MaxWorkers == 2     \* largest configured max_workers (MAX_THREADS)
MaxPorts == 3       \* longest ports list given to one scan_host call
MaxPoolPorts == 2   \* longest PORTS list of a parallel orchestrated run
NumHosts == 2       \* scan_host calls the parallel orchestrator submits
MaxNetOpen == 3     \* open (host, port) pairs on the network of a run
NumReporters == 2   \* SOCReporter instances constructed
MaxWrites == 2      \* baseline writes in a run of the model
MaxClock == 1       \* seconds the wall clock advances
MaxHostBits == 10   \* most host bits of a range given to validate_cidr
MaxBatch == 3       \* longest batch given to generate_executive_summary

\* ------------------------------------------------------------------------
\* Values
\* ------------------------------------------------------------------------
ABSENT == "<absent>"
NONE == "<None>"

SSH_PORT == 22
HTTP_PORT == 80
HTTPS_PORT == 443
SMB_PORT == 445
RDP_PORT == 3389
UNMAPPED_PORT == 9999

RiskLevels == {"LOW", "MEDIUM", "HIGH", "CRITICAL"}

\* ------------------------------------------------------------------------
\* risk_engine.py
\* ------------------------------------------------------------------------
MITRE_ATTACK_MAP ==
  [p \in {21, 22, 23, 25, 80, 443, 445, 3389, 5900, 8080, 8443} |->
    CASE p = 21   -> [technique |-> "T1071.001", tactic |-> "Command and Control", name |-> "FTP", risk |-> "MEDIUM"]
      [] p = 22   -> [technique |-> "T1021.004", tactic |-> "Lateral Movement", name |-> "SSH", risk |-> "HIGH"]
      [] p = 23   -> [technique |-> "T1071.001", tactic |-> "Command and Control", name |-> "Telnet", risk |-> "HIGH"]
      [] p = 25   -> [technique |-> "T1071.003", tactic |-> "Command and Control", name |-> "SMTP", risk |-> "MEDIUM"]
      [] p = 80   -> [technique |-> "T1190", tactic |-> "Initial Access", name |-> "HTTP", risk |-> "MEDIUM"]
      [] p = 443  -> [technique |-> "T1190", tactic |-> "Initial Access", name |-> "HTTPS", risk |-> "MEDIUM"]
      [] p = 445  -> [technique |-> "T1021.002", tactic |-> "Lateral Movement", name |-> "SMB", risk |-> "CRITICAL"]
      [] p = 3389 -> [technique |-> "T1021.001", tactic |-> "Lateral Movement", name |-> "RDP", risk |-> "CRITICAL"]
      [] p = 5900 -> [technique |-> "T1021.005", tactic |-> "Lateral Movement", name |-> "VNC", risk |-> "HIGH"]
      [] p = 8080 -> [technique |-> "T1190", tactic |-> "Initial Access", name |-> "HTTP-Alt", risk |-> "MEDIUM"]
      [] p = 8443 -> [technique |-> "T1190", tactic |-> "Initial Access", name |-> "HTTPS-Alt", risk |-> "MEDIUM"]]

\* A mis-typed weight table: HIGH weighs 5.
risk_scores_mutant ==
  [r \in RiskLevels |->
    CASE r = "LOW" -> 1 [] r = "MEDIUM" -> 3 [] r = "HIGH" -> 5 [] r = "CRITICAL" -> 10]

risk_scores ==
  [r \in RiskLevels |->
    CASE r = "LOW" -> 1 [] r = "MEDIUM" -> 3 [] r = "HIGH" -> 6 [] r = "CRITICAL" -> 10]

InSeq(x, s) == \E i \in 1..Len(s) : s[i] = x

\* The recommendation the loop body appends for one mapped port (the
\* if/elif chain), as a sequence of zero or one strings.
PortRecommendation(port, open_ports) ==
  IF port = 3389 THEN <<"Restrict RDP to VPN or jump host">>
  ELSE IF port = 22 THEN <<"Implement SSH key authentication only">>
  ELSE IF port = 80 /\ ~InSeq(443, open_ports) THEN <<"Redirect HTTP to HTTPS">>
  ELSE IF port = 445 THEN <<"Restrict SMB to internal subnets only">>
  ELSE <<>>

\* One iteration of `for port in open_ports`, on the accumulator
\* [risk_score, mitre_findings, recommendations].
AssessPort(acc, port, open_ports) ==
  IF port \in DOMAIN MITRE_ATTACK_MAP
  THEN LET mitre_data == MITRE_ATTACK_MAP[port]
       IN  [risk_score |-> acc.risk_score + risk_scores[mitre_data.risk],
            mitre_findings |-> Append(acc.mitre_findings,
                                 [port |-> port,
                                  technique |-> mitre_data.technique,
                                  tactic |-> mitre_data.tactic,
                                  service |-> mitre_data.name,
                                  risk |-> mitre_data.risk]),
            recommendations |-> acc.recommendations \o PortRecommendation(port, open_ports)]
  ELSE acc

\* The whole loop: the accumulator after the first n ports.
RECURSIVE AssessLoop(_, _)
AssessLoop(open_ports, n) ==
  IF n = 0
  THEN [risk_score |-> 0, mitre_findings |-> <<>>, recommendations |-> <<>>]
  ELSE AssessPort(AssessLoop(open_ports, n - 1), open_ports[n], open_ports)

\* The compound rule writes HIGH where CRITICAL was meant.
InitialRiskLevel_mutant(risk_score, open_ports) ==
  IF InSeq(3389, open_ports) /\ InSeq(445, open_ports) THEN "HIGH"
  ELSE IF risk_score >= 15 THEN "CRITICAL"
  ELSE IF risk_score >= 10 THEN "HIGH"
  ELSE IF risk_score >= 5 THEN "MEDIUM"
  ELSE "LOW"

\* Strict comparisons where the code has >=.
InitialRiskLevel_strict(risk_score, open_ports) ==
  IF InSeq(3389, open_ports) /\ InSeq(445, open_ports) THEN "CRITICAL"
  ELSE IF risk_score > 15 THEN "CRITICAL"
  ELSE IF risk_score > 10 THEN "HIGH"
  ELSE IF risk_score > 5 THEN "MEDIUM"
  ELSE "LOW"

\* initial_risk_level: the threshold chain, then the RDP + SMB override.
InitialRiskLevel(risk_score, open_ports) ==
  LET by_score == IF risk_score >= 15 THEN "CRITICAL"
                  ELSE IF risk_score >= 10 THEN "HIGH"
                  ELSE IF risk_score >= 5 THEN "MEDIUM"
                  ELSE "LOW"
  IN  IF InSeq(3389, open_ports) /\ InSeq(445, open_ports) THEN "CRITICAL" ELSE by_score

CompoundRecommendation(open_ports) ==
  IF InSeq(3389, open_ports) /\ InSeq(445, open_ports)
  THEN <<"CRITICAL: Both RDP and SMB exposed">>
  ELSE <<>>

\* ip.startswith('192.168.10.') and so on, on the tuple of octets.
_determine_network_segment(ip) ==
  IF ip[1] = 192 /\ ip[2] = 168 /\ ip[3] = 10 THEN "Internal_Management"
  ELSE IF ip[1] = 192 /\ ip[2] = 168 /\ ip[3] = 20 THEN "User_Network"
  ELSE IF ip[1] = 10 /\ ip[2] = 0 THEN "Server_Farm"
  ELSE "General_Network"

\* triage_data=None and the empty dict are both falsy and both modelled by
\* the dict in which every key is missing.
NoTriage == [final_risk |-> ABSENT, adjustment_reason |-> ABSENT]

IsFalsy(d) ==
  /\ DOMAIN d = DOMAIN NoTriage
  /\ d.final_risk = ABSENT
  /\ d.adjustment_reason = ABSENT

\* `port_details = triage_data if triage_data else {}`
PortDetails(triage_data) == IF IsFalsy(triage_data) THEN NoTriage ELSE triage_data

\* dict.get(key, default): the default only when the key is missing.
DictGet(value, default) == IF value = ABSENT THEN default ELSE value

\* The final if/else of assess_exposure: the keys it adds to the finding.
RiskAdjustment(port_details, initial_risk_level) ==
  IF port_details.final_risk # ABSENT
  THEN [true_risk |-> port_details.final_risk,
        risk_adjusted |-> TRUE,
        adjustment_reason |-> DictGet(port_details.adjustment_reason, "Contextual triage applied")]
  ELSE [true_risk |-> initial_risk_level,
        risk_adjusted |-> FALSE,
        adjustment_reason |-> ABSENT]

assess_exposure(ip, open_ports, triage_data, now) ==
  LET port_details == PortDetails(triage_data)
      acc == AssessLoop(open_ports, Len(open_ports))
      initial_risk_level == InitialRiskLevel(acc.risk_score, open_ports)
      adj == RiskAdjustment(port_details, initial_risk_level)
  IN  [ip |-> ip,
       open_ports |-> open_ports,
       initial_risk |-> initial_risk_level,
       risk_score |-> acc.risk_score,
       mitre_findings |-> acc.mitre_findings,
       network_segment |-> _determine_network_segment(ip),
       priority |-> initial_risk_level,
       recommendations |-> acc.recommendations \o CompoundRecommendation(open_ports),
       timestamp |-> now,
       true_risk |-> adj.true_risk,
       risk_adjusted |-> adj.risk_adjusted,
       adjustment_reason |-> adj.adjustment_reason]

\* The ports of a batch in the order the double loop visits them.
RECURSIVE PortsVisited(_)
PortsVisited(batch) ==
  IF batch = <<>> THEN <<>>
  ELSE PortsVisited(SubSeq(batch, 1, Len(batch) - 1)) \o batch[Len(batch)].open_ports

\* summary['common_ports'] after the loop: <<port, count>> items in the
\* order the keys were first inserted.
RECURSIVE CountPorts(_)
CountPorts(visited) ==
  IF visited = <<>> THEN <<>>
  ELSE LET counted == CountPorts(SubSeq(visited, 1, Len(visited) - 1))
           port == visited[Len(visited)]
       IN  IF \E i \in 1..Len(counted) : counted[i][1] = port
           THEN [i \in 1..Len(counted) |->
                   IF counted[i][1] = port THEN <<port, counted[i][2] + 1>> ELSE counted[i]]
           ELSE Append(counted, <<port, 1>>)

\* sorted(items, key=lambda x: x[1], reverse=True): the sort is stable, items
\* of equal count keep their order.
RECURSIVE SortByCount(_)
SortByCount(items) ==
  IF items = <<>> THEN <<>>
  ELSE LET done == SortByCount(SubSeq(items, 1, Len(items) - 1))
           item == items[Len(items)]
           k == Cardinality({i \in 1..Len(done) : done[i][2] >= item[2]})
       IN  SubSeq(done, 1, k) \o <<item>> \o SubSeq(done, k + 1, Len(done))

\* [:5]
FirstFive(items) == SubSeq(items, 1, IF Len(items) < 5 THEN Len(items) ELSE 5)

\* How many assessments of the batch satisfy the test.
CountWhere(batch, Test(_)) == Cardinality({i \in 1..Len(batch) : Test(batch[i])})

\* hosts_with_exposure counts every assessment.
generate_executive_summary_mutant(batch) ==
  [total_hosts |-> Len(batch),
   hosts_with_exposure |-> Len(batch),
   critical_hosts |-> CountWhere(batch, LAMBDA a : a.true_risk = "CRITICAL"),
   high_hosts |-> CountWhere(batch, LAMBDA a : a.true_risk = "HIGH"),
   medium_hosts |-> CountWhere(batch, LAMBDA a : a.true_risk = "MEDIUM"),
   low_hosts |-> CountWhere(batch, LAMBDA a : a.true_risk = "LOW"),
   adjusted_risks |-> CountWhere(batch, LAMBDA a : a.risk_adjusted),
   total_open_ports |-> Len(PortsVisited(batch)),
   common_ports |-> FirstFive(SortByCount(CountPorts(PortsVisited(batch)))),
   top_risks |-> <<>>]

\* generate_executive_summary: the counters after the loop over the batch.
generate_executive_summary(batch) ==
  [total_hosts |-> Len(batch),
   hosts_with_exposure |-> CountWhere(batch, LAMBDA a : a.open_ports # <<>>),
   critical_hosts |-> CountWhere(batch, LAMBDA a : a.true_risk = "CRITICAL"),
   high_hosts |-> CountWhere(batch, LAMBDA a : a.true_risk = "HIGH"),
   medium_hosts |-> CountWhere(batch, LAMBDA a : a.true_risk = "MEDIUM"),
   low_hosts |-> CountWhere(batch, LAMBDA a : a.true_risk = "LOW"),
   adjusted_risks |-> CountWhere(batch, LAMBDA a : a.risk_adjusted),
   total_open_ports |-> Len(PortsVisited(batch)),
   common_ports |-> FirstFive(SortByCount(CountPorts(PortsVisited(batch)))),
   top_risks |-> <<>>]

\* ------------------------------------------------------------------------
\* triage_engine.py
\*
\* A banner text is modelled by the set of the marker substrings it
\* contains: `m in banner` is membership, the empty set is the empty
\* string.  NoBanner is Python's None.
\* ------------------------------------------------------------------------
Markers == {"NLA", "nla", "SSL", "SECURE", "SSH-1.", "SSH-2.0", "It works", "Welcome", "text"}

NoBanner == {NONE}

\* str.upper() on one marker.
UpperMarker(m) ==
  CASE m = "nla" -> "NLA"
    [] m = "It works" -> "IT WORKS"
    [] m = "Welcome" -> "WELCOME"
    [] m = "text" -> "TEXT"
    [] OTHER -> m

\* banner.upper()
Upper(banner) == {UpperMarker(m) : m \in banner}

\* ipaddress.ip_address(ip) accepts four octets in 0..255.
ValidIP(ip) == Len(ip) = 4 /\ \A i \in 1..4 : ip[i] \in 0..255

\* IPv4Address.is_private: membership in the private-use registry ranges.
IsPrivate(ip) ==
  \/ ip[1] \in {0, 10, 127}
  \/ ip[1] = 169 /\ ip[2] = 254
  \/ ip[1] = 172 /\ ip[2] \in 16..31
  \/ ip[1] = 192 /\ ip[2] = 168
  \/ ip[1] = 192 /\ ip[2] = 0 /\ ip[3] \in {0, 2}
  \/ ip[1] = 198 /\ ip[2] \in {18, 19}
  \/ ip[1] = 198 /\ ip[2] = 51 /\ ip[3] = 100
  \/ ip[1] = 203 /\ ip[2] = 0 /\ ip[3] = 113
  \/ ip[1] >= 240

_get_network_context(ip) ==
  IF ~ValidIP(ip) THEN "Unknown"
  ELSE IF IsPrivate(ip) THEN "Internal_Network"
  ELSE "External_Network"

_default_risk(port, ip) ==
  LET base == IF port \in {21, 23, 445, 3389} THEN "HIGH"
              ELSE IF port \in {22, 80, 25, 3306, 5432} THEN "MEDIUM"
              ELSE IF port \in {443} THEN "LOW"
              ELSE "MEDIUM"
  IN  IF _get_network_context(ip) = "Internal_Network" /\ base = "HIGH"
      THEN "MEDIUM"
      ELSE base

\* common.get(port, f'Port-{port}'): the name, or the prefix and the number.
_guess_service(port) ==
  CASE port = 22 -> <<"SSH">> [] port = 3389 -> <<"RDP">> [] port = 80 -> <<"HTTP">>
    [] port = 443 -> <<"HTTPS">> [] port = 445 -> <<"SMB">> [] port = 21 -> <<"FTP">>
    [] port = 23 -> <<"Telnet">> [] port = 25 -> <<"SMTP">> [] port = 3306 -> <<"MySQL">>
    [] port = 5432 -> <<"PostgreSQL">> [] port = 27017 -> <<"MongoDB">>
    [] OTHER -> <<"Port-", port>>

\* _grab_banner: `received` is "fail" when connect, send or recv raised,
\* else the text received, stripped; an empty text gives None.
_grab_banner(received) ==
  IF received = {"fail"} \/ received = {} THEN NoBanner ELSE received

\* triage_service(ip, port), given what the banner connection received.
triage_service(ip, port, received) ==
  LET banner == _grab_banner(received)
      initial == [ip |-> ip,
                  port |-> port,
                  service_guess |-> _guess_service(port),
                  banner |-> NoBanner,
                  verification |-> "Port detection",
                  reliability |-> "MEDIUM",
                  final_risk |-> _default_risk(port, ip),
                  adjustment_reason |-> "Initial assessment",
                  network_context |-> _get_network_context(ip)]
      grabbed == [initial EXCEPT !.banner = banner, !.verification = "Banner"]
  IN  IF banner = NoBanner THEN initial
      ELSE IF port = 3389 /\ "NLA" \in Upper(banner)
        THEN [grabbed EXCEPT !.final_risk = "MEDIUM",
                             !.adjustment_reason = "RDP with NLA detected"]
      ELSE IF port = 22 /\ "SSH-2.0" \in banner
        THEN [grabbed EXCEPT !.final_risk =
                               IF _get_network_context(ip) = "Internal_Network"
                               THEN "MEDIUM" ELSE "HIGH",
                             !.adjustment_reason = "SSH version detected"]
      ELSE IF port = 80 /\ ("It works" \in banner \/ "Welcome" \in banner)
        THEN [grabbed EXCEPT !.final_risk = "MEDIUM",
                             !.adjustment_reason = "Default web page detected"]
      ELSE grabbed

\* ------------------------------------------------------------------------
\* risk_engine_backup.py: the earlier TriageEngine kept in the repository.
\* Where it shares a method name with triage_engine.py the name carries the
\* suffix _backup.
\* ------------------------------------------------------------------------
\* What a call that raised yields in place of a dict.
ValueError == [raised |-> "ValueError"]

\* _is_internal_network on an address ipaddress.ip_address accepts: the
\* three default ranges.  On any other string ip_address raises.
_is_internal_network(ip) ==
  \/ ip[1] = 192 /\ ip[2] = 168
  \/ ip[1] = 10
  \/ ip[1] = 172 /\ ip[2] \in 16..31

_guess_service_backup(port) ==
  CASE port = 20 -> <<"FTP-DATA">> [] port = 21 -> <<"FTP">> [] port = 22 -> <<"SSH">>
    [] port = 23 -> <<"Telnet">> [] port = 25 -> <<"SMTP">> [] port = 53 -> <<"DNS">>
    [] port = 80 -> <<"HTTP">> [] port = 110 -> <<"POP3">> [] port = 143 -> <<"IMAP">>
    [] port = 443 -> <<"HTTPS">> [] port = 445 -> <<"SMB">> [] port = 3389 -> <<"RDP">>
    [] port = 5900 -> <<"VNC">> [] port = 8080 -> <<"HTTP-Proxy">>
    [] OTHER -> <<"Unknown-Port-", port>>

\* result['details'], a missing key being ABSENT and a bool its name.
NoDetails == [nla_enabled |-> ABSENT, ssh_v1 |-> ABSENT, network_context |-> ABSENT]

\* The dict triage_service starts from.
InitialResult(ip, port) ==
  [ip |-> ip,
   port |-> port,
   service_guess |-> _guess_service_backup(port),
   banner |-> NoBanner,
   verification |-> "Basic port detection",
   reliability |-> "MEDIUM",
   details |-> NoDetails,
   final_risk |-> NONE,
   adjustment_reason |-> NONE,
   checks_passed |-> <<>>,
   checks_failed |-> <<>>]

\* any(indicator in banner.upper() for indicator in ['SSL', 'NLA', 'SECURE'])
HasIndicator(banner) == Upper(banner) \cap {"SSL", "NLA", "SECURE"} # {}

\* _triage_rdp on a valid address (no call in it raises then).
_triage_rdp(ip, result, received) ==
  LET banner == _grab_banner(received)
      r1 == [result EXCEPT !.service_guess = <<"RDP">>]
      r2 == IF banner = NoBanner THEN r1
            ELSE IF HasIndicator(banner)
              THEN [r1 EXCEPT !.banner = banner,
                              !.verification = "Service banner",
                              !.details.nla_enabled = "True",
                              !.checks_passed = Append(@, "NLA_ENABLED"),
                              !.reliability = "HIGH"]
              ELSE [r1 EXCEPT !.banner = banner,
                              !.verification = "Service banner",
                              !.details.nla_enabled = "False",
                              !.checks_failed = Append(@, "NLA_ENABLED")]
  IN  IF r2.details.nla_enabled = "True"
      THEN IF _is_internal_network(ip)
           THEN [r2 EXCEPT !.final_risk = "MEDIUM",
                           !.adjustment_reason = "RDP has NLA and is on internal network"]
           ELSE [r2 EXCEPT !.final_risk = "MEDIUM_HIGH",
                           !.adjustment_reason = "RDP has NLA but is on external network"]
      ELSE [r2 EXCEPT !.final_risk = "CRITICAL",
                      !.adjustment_reason = "RDP exposed with weak or no authentication"]

\* _triage_ssh on a valid address.
_triage_ssh(ip, result, received) ==
  LET banner == _grab_banner(received)
      r1 == [result EXCEPT !.service_guess = <<"SSH">>]
  IN  IF banner = NoBanner THEN r1
      ELSE IF "SSH-1." \in banner
        THEN [r1 EXCEPT !.banner = banner,
                        !.verification = "SSH banner",
                        !.details.ssh_v1 = "True",
                        !.checks_failed = Append(@, "SSH_V2_ONLY"),
                        !.final_risk = "HIGH",
                        !.adjustment_reason = "SSH protocol version 1 detected (insecure)"]
        ELSE [r1 EXCEPT !.banner = banner,
                        !.verification = "SSH banner",
                        !.details.ssh_v1 = "False",
                        !.checks_passed = Append(@, "SSH_V2_ONLY"),
                        !.final_risk = IF _is_internal_network(ip) THEN "MEDIUM" ELSE "HIGH"]

_triage_smb(result) ==
  [result EXCEPT !.service_guess = <<"SMB">>,
                 !.final_risk = "HIGH",
                 !.adjustment_reason = "SMB protocol exposure (potential lateral movement)"]

_deep_dive_triage(ip, port, result, received) ==
  IF port = 3389 THEN _triage_rdp(ip, result, received)
  ELSE IF port = 22 THEN _triage_ssh(ip, result, received)
  ELSE IF port = 445 THEN _triage_smb(result)
  ELSE result

\* _apply_network_context on a valid address.
_apply_network_context(ip, result) ==
  IF _is_internal_network(ip)
  THEN LET r1 == [result EXCEPT !.details.network_context = "Internal_Network"]
       IN  IF /\ r1.final_risk \in {"CRITICAL", "HIGH"}
              /\ r1.adjustment_reason \in {NONE, ""}
              /\ (r1.details.nla_enabled = "True" \/ r1.details.ssh_v1 = "False")
           THEN [r1 EXCEPT !.final_risk = "MEDIUM",
                           !.adjustment_reason = "Internal network context applied"]
           ELSE r1
  ELSE [result EXCEPT !.details.network_context = "External_Network"]

\* triage_service(ip, port) of the earlier engine.  On a malformed address
\* _apply_network_context's ip_address(ip) raises outside every try block
\* (the handlers of _triage_rdp and _triage_ssh catch an earlier raise of
\* the same call, the later one escapes), so the call raises.
triage_service_backup(ip, port, received) ==
  IF ~ValidIP(ip) THEN ValueError
  ELSE LET result == InitialResult(ip, port)
           dived == IF port \in {22, 3389, 445, 21, 23, 5900}
                    THEN _deep_dive_triage(ip, port, result, received)
                    ELSE result
       IN  _apply_network_context(ip, dived)

\* ------------------------------------------------------------------------
\* reporter.py
\*
\* A Python dict is modelled here with the order of its keys: a sequence of
\* <<key, value>> pairs in insertion order.
\* ------------------------------------------------------------------------
\* One entry of mitre_findings as the literal of assess_exposure writes it.
FindingDict(f) ==
  << <<"port", f.port>>, <<"technique", f.technique>>, <<"tactic", f.tactic>>,
     <<"service", f.service>>, <<"risk", f.risk>> >>

\* The dict assess_exposure returns, keys in the order of the literal
\* enhanced_finding and of the assignments after it (the keys with fixed
\* values are left out).
enhanced_finding(a) ==
  << <<"ip", a.ip>>,
     <<"open_ports", a.open_ports>>,
     <<"initial_risk", a.initial_risk>>,
     <<"risk_score", a.risk_score>>,
     <<"context", << <<"mitre_findings",
                       [i \in 1..Len(a.mitre_findings) |-> FindingDict(a.mitre_findings[i])]>>,
                     <<"network_segment", a.network_segment>> >> >>,
     <<"transferable_data", << <<"ticket_fields", << <<"priority", a.priority>> >> >> >> >>,
     <<"recommendations", a.recommendations>>,
     <<"timestamp", a.timestamp>>,
     <<"true_risk", a.true_risk>>,
     <<"risk_adjusted", a.risk_adjusted>> >>
  \o (IF a.adjustment_reason = ABSENT THEN <<>>
      ELSE << <<"adjustment_reason", a.adjustment_reason>> >>)

\* The keys whose value is a dict, and those whose value is a list of dicts.
DictKeys == {"context", "transferable_data", "ticket_fields"}

DictListKeys == {"mitre_findings"}

\* The keys of the assessment dicts in the order Python compares strings.
SortedKeys ==
  <<"adjustment_reason", "context", "initial_risk", "ip", "mitre_findings",
    "network_segment", "open_ports", "port", "priority", "recommendations",
    "risk", "risk_adjusted", "risk_score", "service", "tactic", "technique",
    "ticket_fields", "timestamp", "transferable_data", "true_risk">>

\* The position of each key in that order.
KeyRanks ==
  [k \in {SortedKeys[i] : i \in 1..Len(SortedKeys)} |->
    CHOOSE i \in 1..Len(SortedKeys) : SortedKeys[i] = k]

KeyRank(k) == KeyRanks[k]

\* sorted(dict.items()) by key, by insertion.
RECURSIVE InsertItem(_, _)
InsertItem(item, items) ==
  IF items = <<>> THEN <<item>>
  ELSE IF KeyRank(item[1]) <= KeyRank(Head(items)[1]) THEN <<item>> \o items
  ELSE <<Head(items)>> \o InsertItem(item, Tail(items))

RECURSIVE SortItems(_)
SortItems(items) ==
  IF items = <<>> THEN <<>> ELSE InsertItem(Head(items), SortItems(Tail(items)))

\* A json.dumps that sorts the keys of the outermost dicts only.
json_dumps_mutant(d) == SortItems(d)

\* json.dumps(d, sort_keys=True) of one dict: the items in key order, every
\* dict inside a value dumped the same way.  The text is modelled by the
\* sequence of its items.
RECURSIVE json_dumps(_)
json_dumps(d) ==
  SortItems([i \in 1..Len(d) |->
    <<d[i][1],
      IF d[i][1] \in DictKeys THEN json_dumps(d[i][2])
      ELSE IF d[i][1] \in DictListKeys
        THEN [j \in 1..Len(d[i][2]) |-> json_dumps(d[i][2][j])]
      ELSE d[i][2]>>])

\* stable_hash(data) on a list of dicts: SHA-256 of the dumped text, taken
\* as collision-free.
stable_hash(data) == <<"sha256", [i \in 1..Len(data) |-> json_dumps(data[i])]>>

\* The three names the files of a run carry are built from self.timestamp;
\* the baseline's path is identified by that timestamp.
BaselinePath(timestamp) == <<"baseline_", timestamp, ".json">>

\* _write_baseline: the dict written at `now`.
Baseline(assessments_, now) ==
  [created_at |-> now, host_count |-> Len(assessments_), hash |-> stable_hash(assessments_)]

\* sorted(glob("baseline_*.json"))[-1]: the file names order as their
\* timestamps do.
LatestPath(files) ==
  CHOOSE f \in files : \A g \in files : g[2] <= f[2]

\* With the sign of host_delta reversed.
detect_drift_mutant(dir, current_assessments, now) ==
  IF DOMAIN dir = {}
  THEN [drift_detected |-> FALSE, message |-> "No baseline found."]
  ELSE LET baseline == dir[LatestPath(DOMAIN dir)]
           current_hash == stable_hash(current_assessments)
       IN  [drift_detected |-> current_hash # baseline.hash,
            baseline_time |-> baseline.created_at,
            current_time |-> now,
            baseline_hash |-> baseline.hash,
            current_hash |-> current_hash,
            host_delta |-> baseline.host_count - Len(current_assessments)]

\* Reporting drift when there is nothing to compare with.
detect_drift_alarm(dir, current_assessments, now) ==
  IF DOMAIN dir = {}
  THEN [drift_detected |-> TRUE, message |-> "No baseline found."]
  ELSE LET baseline == dir[LatestPath(DOMAIN dir)]
           current_hash == stable_hash(current_assessments)
       IN  [drift_detected |-> current_hash # baseline.hash,
            baseline_time |-> baseline.created_at,
            current_time |-> now,
            baseline_hash |-> baseline.hash,
            current_hash |-> current_hash,
            host_delta |-> Len(current_assessments) - baseline.host_count]

\* detect_drift(current_assessments) on the directory content `dir` (file
\* path -> dict read from it), called at `now`.
detect_drift(dir, current_assessments, now) ==
  IF DOMAIN dir = {}
  THEN [drift_detected |-> FALSE, message |-> "No baseline found."]
  ELSE LET baseline == dir[LatestPath(DOMAIN dir)]
           current_hash == stable_hash(current_assessments)
       IN  [drift_detected |-> current_hash # baseline.hash,
            baseline_time |-> baseline.created_at,
            current_time |-> now,
            baseline_hash |-> baseline.hash,
            current_hash |-> current_hash,
            host_delta |-> Len(current_assessments) - baseline.host_count]

\* ------------------------------------------------------------------------
\* scanner.py: values
\* ------------------------------------------------------------------------
\* sorted(xs), computed by insertion: keeps equal elements.
RECURSIVE Insert(_, _)
Insert(x, s) ==
  IF s = <<>> THEN <<x>>
  ELSE IF x <= Head(s) THEN <<x>> \o s
  ELSE <<Head(s)>> \o Insert(x, Tail(s))

RECURSIVE sorted(_)
sorted(xs) == IF xs = <<>> THEN <<>> ELSE Insert(Head(xs), sorted(Tail(xs)))

\* A range string "a.b.c.d/p" is modelled by what split('/') and split('.')
\* make of it: addr, the fields of the address part, and rest, the parts
\* after the first '/'.  A field is the number its decimal digits denote, or
\* NotANumber when it is empty or holds another character.
NotANumber == -1

RECURSIVE Pow2(_)
Pow2(n) == IF n = 0 THEN 1 ELSE 2 * Pow2(n - 1)

\* ipaddress.ip_network(cidr, strict=False): at most one '/', four octets
\* in 0..255, a prefix length in 0..32 (32 when none is given); host bits
\* of the address are masked off.  The model covers the prefixes whose host
\* part lies in the last two octets.
ip_network(cidr) ==
  IF \/ Len(cidr.rest) > 1
     \/ ~(Len(cidr.addr) = 4 /\ \A i \in 1..4 : cidr.addr[i] \in 0..255)
     \/ Len(cidr.rest) = 1 /\ cidr.rest[1] \notin 0..32
  THEN ValueError
  ELSE LET prefixlen == IF cidr.rest = <<>> THEN 32 ELSE cidr.rest[1]
           low == cidr.addr[3] * 256 + cidr.addr[4]
       IN  [high |-> <<cidr.addr[1], cidr.addr[2]>>,
            low |-> low - (low % Pow2(32 - prefixlen)),
            prefixlen |-> prefixlen]

\* The address at offset k of the network address.
AddressAt(network, k) ==
  <<network.high[1], network.high[2], (network.low + k) \div 256, (network.low + k) % 256>>

\* IPv4Network.hosts(): every address of a /31 or /32, otherwise the
\* addresses between the network address and the broadcast address.
hosts(network) ==
  LET size == Pow2(32 - network.prefixlen)
  IN  IF network.prefixlen >= 31
      THEN [k \in 1..size |-> AddressAt(network, k - 1)]
      ELSE [k \in 1..(size - 2) |-> AddressAt(network, k)]

\* strict=True: an address with host bits set is rejected.
validate_cidr_strict(cidr) ==
  LET network == ip_network(cidr)
  IN  IF network = ValueError THEN <<>>
      ELSE IF network.low # cidr.addr[3] * 256 + cidr.addr[4] THEN <<>>
      ELSE hosts(network)

\* validate_cidr: the host list, or [] when ip_network raises ValueError.
validate_cidr(cidr) ==
  LET network == ip_network(cidr)
  IN  IF network = ValueError THEN <<>> ELSE hosts(network)

\* self.scan_stats after __init__
InitialStats == [hosts_scanned |-> 0, ports_checked |-> 0, open_ports_found |-> 0]

\* A worker thread of a scan_host executor before its first work item.
FreshWorker == [st |-> "fresh", job |-> 0, tmp |-> 0, elapsed |-> FALSE, reuse |-> "none"]

\* ------------------------------------------------------------------------
\* State
\* ------------------------------------------------------------------------
VARIABLES
  max_workers,    \* DefenderSafeScanner.max_workers, also the orchestrator's pool size
  ports,          \* the ports list every scan_host call is given
  scan_stats,     \* DefenderSafeScanner.scan_stats
  call_pc,        \* per scan_host call: "queued", "wait", "sleep", "st_hosts", "returned"
  next_job,       \* per call: index in ports of the next work item in the executor's queue
  worker,         \* per call and worker thread: what it is doing
  future,         \* per call and submitted probe: "pending", "open" or "closed"
  collected,      \* per call: the futures as_completed has yielded
  open_ports,     \* per call: the local list open_ports
  call_tmp,       \* per call: the value of hosts_scanned it has read
  result,         \* per call: the list returned
  attempts,       \* history: per call and submitted probe, the outcomes of its connection attempts
  vc_pc,          \* validate_cidr: "call" or "returned"
  vc_cidr,        \* validate_cidr: the argument
  vc_result,      \* validate_cidr: the list returned
  sm_pc,          \* generate_executive_summary: "call" or "returned"
  sm_assessments, \* generate_executive_summary: the argument
  sm_summary,     \* generate_executive_summary: the dict returned
  rk_pc,          \* assess_exposure: "call" before the call, "returned" after
  rk_ip,          \* its argument ip
  rk_open_ports,  \* its argument open_ports
  rk_triage,      \* its argument triage_data (NoTriage when not given)
  rk_result,      \* the dict it returned (NONE before the call)
  tr_engine,      \* triage_service: "live" (triage_engine.py) or "backup" (risk_engine_backup.py)
  tr_pc,          \* triage_service: "call" before the call, then "returned" or "raised"
  tr_ip,          \* its argument ip
  tr_port,        \* its argument port
  tr_received,    \* what its banner connection receives
  tr_result,      \* the dict it returned (ValueError when it raised, NONE before the call)
  tr_assessment,  \* the assessment built from that evidence (NONE before assess_exposure)
  clock,          \* the wall clock, in seconds
  reporters,      \* per SOCReporter instance constructed: its self.timestamp
  output_dir,     \* the reports directory: baseline file path -> dict stored in it
  written,        \* history: per baseline write, its path, its batch and its time
  drift,          \* the last detect_drift call: its argument, the write it read, its result
  m_variant,      \* the orchestrator run: "main" (main.py) or "main_backup"
  m_pc,           \* main: "start", "scan", "scanned", "report", "drift", "done" or "exit_1"
  NETWORK_CIDR,   \* main: the configured range string
  late,           \* the targets whose scan takes longer than the per-host deadline
  probes_sent,    \* history: connection attempts made by the scans of the run
  m_summary,      \* main: the dict summary (NoSummary before it is built)
  report_files,   \* the reports directory: the sentinel_* report files
  PORTS,          \* main: the configured port list
  targets,        \* main: the host list
  net_open,       \* the network: per target, the set of ports that accept
  processed,      \* main: the targets whose scan result has been handled
  assessments     \* main: the list assessments

riskVars == <<rk_pc, rk_ip, rk_open_ports, rk_triage, rk_result>>

triageVars == <<tr_engine, tr_pc, tr_ip, tr_port, tr_received, tr_result, tr_assessment>>

reportVars == <<clock, reporters, output_dir, written, drift>>

scanVars == <<max_workers, ports, scan_stats, call_pc, next_job, worker, future,
              collected, open_ports, call_tmp, result, attempts>>

mainVars == <<m_variant, m_pc, PORTS, targets, net_open, processed, assessments,
              NETWORK_CIDR, late, probes_sent, m_summary, report_files>>

cidrVars == <<vc_pc, vc_cidr, vc_result>>

summaryVars == <<sm_pc, sm_assessments, sm_summary>>

vars == <<riskVars, triageVars, reportVars, scanVars, mainVars, cidrVars, summaryVars>>

Hosts == 1..NumHosts

BoundedSeq(S, n) == UNION {[1..k -> S] : k \in 0..n}

\* ------------------------------------------------------------------------
\* SpecRisk: assess_exposure applied to every input of the bounded sets
\* ------------------------------------------------------------------------
RiskPorts == {SSH_PORT, HTTP_PORT, SMB_PORT, RDP_PORT, UNMAPPED_PORT}

RiskIPs == {<<10, 0, 0, 1>>, <<192, 168, 10, 5>>, <<8, 8, 8, 8>>}

\* Evidence dicts as the triage engines and the demo build them: final_risk
\* missing, None, one of the four tiers or the backup engine's MEDIUM_HIGH;
\* adjustment_reason missing, None, empty or a text.
TriageInputs ==
  [final_risk : {ABSENT, NONE, "MEDIUM_HIGH"} \cup RiskLevels,
   adjustment_reason : {ABSENT, NONE, "", "RDP with NLA detected"}]

RiskIdle ==
  /\ rk_pc = "idle"
  /\ rk_ip = <<0, 0, 0, 0>>
  /\ rk_open_ports = <<>>
  /\ rk_triage = NoTriage
  /\ rk_result = NONE

TriageIdle ==
  /\ tr_engine = "none"
  /\ tr_pc = "idle"
  /\ tr_ip = <<0, 0, 0, 0>>
  /\ tr_port = 0
  /\ tr_received = {"fail"}
  /\ tr_result = NONE
  /\ tr_assessment = NONE

\* The value of `drift` before the first detect_drift call.
NoCall == [calls |-> "none", current |-> <<>>, read |-> 0, result |-> [drift_detected |-> FALSE]]

ReportIdle ==
  /\ clock = 0
  /\ reporters = <<>>
  /\ output_dir = <<>>
  /\ written = <<>>
  /\ drift = NoCall

ScanIdle ==
  /\ max_workers = 1
  /\ ports = <<>>
  /\ scan_stats = InitialStats
  /\ call_pc = [h \in Hosts |-> "unused"]
  /\ next_job = [h \in Hosts |-> 1]
  /\ worker = [h \in Hosts |-> <<>>]
  /\ future = [h \in Hosts |-> <<>>]
  /\ collected = [h \in Hosts |-> {}]
  /\ open_ports = [h \in Hosts |-> <<>>]
  /\ call_tmp = [h \in Hosts |-> 0]
  /\ result = [h \in Hosts |-> <<>>]
  /\ attempts = [h \in Hosts |-> <<>>]

CidrIdle ==
  /\ vc_pc = "unused"
  /\ vc_cidr = [addr |-> <<>>, rest |-> <<>>]
  /\ vc_result = <<>>

SummaryIdle ==
  /\ sm_pc = "unused"
  /\ sm_assessments = <<>>
  /\ sm_summary = [total_hosts |-> 0]

\* The value of `summary` before generate_executive_summary is called.
NoSummary == [generated |-> FALSE]

MainIdle ==
  /\ m_variant = "none"
  /\ m_pc = "unused"
  /\ PORTS = <<>>
  /\ targets = <<>>
  /\ net_open = <<>>
  /\ processed = {}
  /\ assessments = <<>>
  /\ NETWORK_CIDR = [addr |-> <<>>, rest |-> <<>>]
  /\ late = {}
  /\ probes_sent = 0
  /\ m_summary = NoSummary
  /\ report_files = {}

InitRisk ==
  /\ CidrIdle
  /\ SummaryIdle
  /\ TriageIdle
  /\ ScanIdle
  /\ MainIdle
  /\ ReportIdle
  /\ rk_pc = "call"
  /\ rk_ip \in RiskIPs
  /\ rk_open_ports \in BoundedSeq(RiskPorts, MaxOpenPorts)
  /\ rk_triage \in TriageInputs
  /\ rk_result = NONE

AssessExposure ==
  /\ rk_pc = "call"
  /\ rk_result' = assess_exposure(rk_ip, rk_open_ports, rk_triage, 0)
  /\ rk_pc' = "returned"
  /\ UNCHANGED <<rk_ip, rk_open_ports, rk_triage>>
  /\ UNCHANGED <<triageVars, reportVars, scanVars, mainVars, cidrVars, summaryVars>>

NextRisk == AssessExposure

SpecRisk == InitRisk /\ [][NextRisk]_vars

\* ------------------------------------------------------------------------
\* SpecTriage: triage_service of either engine applied to every address,
\* port and banner outcome of the bounded sets
\* ------------------------------------------------------------------------
\* A private address, an external one, the loopback address and a string
\* that is no address (an octet above 255).
TriageIPs == {<<192, 168, 1, 100>>, <<8, 8, 8, 8>>, <<127, 0, 0, 1>>, <<10, 0, 0, 256>>}

VNC_PORT == 5900

TriagePorts == {SSH_PORT, RDP_PORT, SMB_PORT, HTTP_PORT, HTTPS_PORT, VNC_PORT}

\* What the banner connection may receive: a failure, nothing, or a text
\* holding one of the markers.
TriageReceptions ==
  {{"fail"}, {}, {"text"}, {"NLA"}, {"nla"}, {"SSL"}, {"SECURE"},
   {"SSH-1."}, {"SSH-2.0"}, {"Welcome"}}

InitTriage ==
  /\ CidrIdle
  /\ SummaryIdle
  /\ RiskIdle
  /\ ScanIdle
  /\ MainIdle
  /\ ReportIdle
  /\ tr_engine \in {"live", "backup"}
  /\ tr_pc = "call"
  /\ tr_ip \in TriageIPs
  /\ tr_port \in TriagePorts
  /\ tr_received \in TriageReceptions
  /\ ~ValidIP(tr_ip) => tr_received = {"fail"}   \* no connection to a non-address
  /\ tr_result = NONE
  /\ tr_assessment = NONE

\* TriageEngine.triage_service of triage_engine.py
TriageLive ==
  /\ tr_engine = "live"
  /\ tr_pc = "call"
  /\ tr_result' = triage_service(tr_ip, tr_port, tr_received)
  /\ tr_pc' = "returned"
  /\ UNCHANGED <<tr_engine, tr_ip, tr_port, tr_received, tr_assessment>>
  /\ UNCHANGED <<riskVars, reportVars, scanVars, mainVars, cidrVars, summaryVars>>

\* TriageEngine.triage_service of risk_engine_backup.py
TriageBackup ==
  /\ tr_engine = "backup"
  /\ tr_pc = "call"
  /\ tr_result' = triage_service_backup(tr_ip, tr_port, tr_received)
  /\ tr_pc' = IF tr_result' = ValueError THEN "raised" ELSE "returned"
  /\ UNCHANGED <<tr_engine, tr_ip, tr_port, tr_received, tr_assessment>>
  /\ UNCHANGED <<riskVars, reportVars, scanVars, mainVars, cidrVars, summaryVars>>

\* risk_engine.assess_exposure(host, [port], triage_result), as both
\* orchestrators call it on the evidence of one open port.
AssessEvidence ==
  /\ tr_pc = "returned"
  /\ tr_assessment' = assess_exposure(tr_ip, <<tr_port>>, tr_result, 0)
  /\ tr_pc' = "assessed"
  /\ UNCHANGED <<tr_engine, tr_ip, tr_port, tr_received, tr_result>>
  /\ UNCHANGED <<riskVars, reportVars, scanVars, mainVars, cidrVars, summaryVars>>

NextTriage == TriageLive \/ TriageBackup \/ AssessEvidence

SpecTriage == InitTriage /\ [][NextTriage]_vars

\* ------------------------------------------------------------------------
\* SpecReport: SOCReporter instances on one reports directory, writing
\* baselines and detecting drift while the clock advances
\* ------------------------------------------------------------------------
\* The assessments of the reporter tests: 192.168.1.100 with port 80 and
\* with ports 80 and 443; and a triaged one.
A80 == enhanced_finding(assess_exposure(<<192, 168, 1, 100>>, <<HTTP_PORT>>, NoTriage, 0))

A80_443 == enhanced_finding(assess_exposure(<<192, 168, 1, 100>>, <<HTTP_PORT, HTTPS_PORT>>, NoTriage, 0))

A22 == enhanced_finding(assess_exposure(<<10, 0, 0, 1>>, <<SSH_PORT>>,
                          triage_service(<<10, 0, 0, 1>>, SSH_PORT, {"SSH-2.0"}), 0))

\* A80 as a run one second later builds it: assess_exposure stamps every
\* assessment with datetime.utcnow().
A80Later == enhanced_finding(assess_exposure(<<192, 168, 1, 100>>, <<HTTP_PORT>>, NoTriage, 1))

Reversed(d) == [i \in 1..Len(d) |-> d[Len(d) + 1 - i]]

\* The same dict built with the keys of every nested dict in the opposite
\* order, the outermost order kept.
RECURSIVE NestedReversed(_)
NestedReversed(d) ==
  [i \in 1..Len(d) |->
    <<d[i][1],
      IF d[i][1] \in DictKeys THEN Reversed(NestedReversed(d[i][2]))
      ELSE IF d[i][1] \in DictListKeys
        THEN [j \in 1..Len(d[i][2]) |-> Reversed(NestedReversed(d[i][2][j]))]
      ELSE d[i][2]>>]

\* The batches passed to the reporter (the orchestrators report only a
\* non-empty list of assessments).  main_backup.py appends the assessments
\* in the order the hosts' scans complete: <<A22, A80>> is <<A80, A22>> of a
\* run whose scans completed in the other order.
ReportBatches ==
  {<<A80>>, <<A80_443>>, <<Reversed(NestedReversed(A80))>>, <<A80, A22>>,
   <<A80Later>>, <<A22, A80>>}

InitReport ==
  /\ CidrIdle
  /\ SummaryIdle
  /\ RiskIdle
  /\ TriageIdle
  /\ ScanIdle
  /\ MainIdle
  /\ clock = 0
  /\ reporters = <<>>
  /\ output_dir = <<>>
  /\ written = <<>>
  /\ drift = NoCall

\* SOCReporter.__init__: the directory exists from now on, self.timestamp
\* is the clock to the second.
NewReporter ==
  /\ Len(reporters) < NumReporters
  /\ reporters' = Append(reporters, clock)
  /\ UNCHANGED <<clock, output_dir, written, drift>>
  /\ UNCHANGED <<riskVars, triageVars, scanVars, mainVars, cidrVars, summaryVars>>

\* _write_baseline(assessments) of instance r: open(path, "w") creates the
\* file or truncates the one already there.
WriteBaseline(r, batch) ==
  /\ r \in DOMAIN reporters
  /\ Len(written) < MaxWrites
  /\ LET path == BaselinePath(reporters[r])
         baseline == Baseline(batch, clock)
     IN  /\ output_dir' = [f \in DOMAIN output_dir \cup {path} |->
                             IF f = path THEN baseline ELSE output_dir[f]]
         /\ written' = Append(written, [path |-> path, batch |-> batch, at |-> clock])
  /\ UNCHANGED <<clock, reporters, drift>>
  /\ UNCHANGED <<riskVars, triageVars, scanVars, mainVars, cidrVars, summaryVars>>

\* The index in `written` of the write that produced the file detect_drift
\* reads (0 when there is no baseline file).
ReadWrite ==
  IF DOMAIN output_dir = {} THEN 0
  ELSE CHOOSE i \in 1..Len(written) :
         /\ written[i].path = LatestPath(DOMAIN output_dir)
         /\ \A j \in (i + 1)..Len(written) : written[j].path # written[i].path

\* detect_drift(current_assessments) of instance r, any number of times:
\* `calls` tells a first call from a later one.
DetectDrift(r, batch) ==
  /\ r \in DOMAIN reporters
  /\ drift' = [calls |-> IF drift.calls = "none" THEN "first" ELSE "repeated",
               current |-> batch,
               read |-> ReadWrite,
               result |-> detect_drift(output_dir, batch, clock)]
  /\ UNCHANGED <<clock, reporters, output_dir, written>>
  /\ UNCHANGED <<riskVars, triageVars, scanVars, mainVars, cidrVars, summaryVars>>

\* A second passes.
TickClock ==
  /\ clock < MaxClock
  /\ clock' = clock + 1
  /\ UNCHANGED <<reporters, output_dir, written, drift>>
  /\ UNCHANGED <<riskVars, triageVars, scanVars, mainVars, cidrVars, summaryVars>>

NextReport ==
  \/ NewReporter
  \/ \E r \in 1..NumReporters, batch \in ReportBatches : WriteBaseline(r, batch)
  \/ \E r \in 1..NumReporters, batch \in ReportBatches : DetectDrift(r, batch)
  \/ TickClock

SpecReport == InitReport /\ [][NextReport]_vars


\* ------------------------------------------------------------------------
\* SpecScan: scan_host calls on one scanner, run by the orchestrator's pool
\* of max_workers threads, each call with its own pool of max_workers
\* probe threads.  Time is counted in units of the inter-probe delay.
\* ------------------------------------------------------------------------
ScanPorts == {SSH_PORT, HTTP_PORT}

PortLists == BoundedSeq(ScanPorts, MaxPorts) \ {<<>>}

\* The state when the calls of the hosts in `active` have been submitted
\* and no other call is made.
ScanStart(active) ==
  /\ scan_stats = InitialStats
  /\ call_pc = [h \in Hosts |-> IF h \in active THEN "queued" ELSE "unused"]
  /\ next_job = [h \in Hosts |-> 1]
  /\ worker = [h \in Hosts |->
       IF h \in active THEN [w \in 1..max_workers |-> FreshWorker] ELSE <<>>]
  /\ future = [h \in Hosts |->
       IF h \in active THEN [i \in 1..Len(ports) |-> "pending"] ELSE <<>>]
  /\ collected = [h \in Hosts |-> {}]
  /\ open_ports = [h \in Hosts |-> <<>>]
  /\ call_tmp = [h \in Hosts |-> 0]
  /\ result = [h \in Hosts |-> <<>>]
  /\ attempts = [h \in Hosts |->
       IF h \in active THEN [i \in 1..Len(ports) |-> <<>>] ELSE <<>>]

\* One scan_host call, on any ports list.
InitScan ==
  /\ CidrIdle
  /\ SummaryIdle
  /\ RiskIdle
  /\ TriageIdle
  /\ MainIdle
  /\ ReportIdle
  /\ max_workers \in 1..MaxWorkers
  /\ ports \in PortLists
  /\ ScanStart({1})

Running(h) == call_pc[h] \in {"wait", "sleep", "st_hosts"}

\* main: a thread of the orchestrator's ThreadPoolExecutor(max_workers)
\* takes the call from the queue.  scan_host then creates its own executor
\* and submits one future per element of ports.
StartCall(h) ==
  /\ call_pc[h] = "queued"
  /\ Cardinality({g \in Hosts : Running(g)}) < max_workers
  /\ call_pc' = [call_pc EXCEPT ![h] = "wait"]
  /\ UNCHANGED <<max_workers, ports, scan_stats, next_job, worker, future,
                 collected, open_ports, call_tmp, result, attempts>>
  /\ UNCHANGED <<riskVars, triageVars, reportVars, mainVars, cidrVars, summaryVars>>

\* A worker thread of the call's executor takes the next work item: a
\* thread that has finished a probe (no wait in between), or a fresh one
\* (submit starts the threads in order).
StartProbe(h, w) ==
  /\ call_pc[h] \in {"wait", "sleep"}
  /\ worker[h][w].st \in {"fresh", "freed"}
  /\ worker[h][w].st = "fresh" => \A v \in 1..(w - 1) : worker[h][v].st # "fresh"
  /\ next_job[h] <= Len(ports)
  /\ worker' = [worker EXCEPT ![h][w] =
       [st |-> "connect", job |-> next_job[h], tmp |-> 0, elapsed |-> FALSE,
        reuse |-> IF worker[h][w].st = "fresh" THEN "none"
                  ELSE IF worker[h][w].elapsed THEN "late" ELSE "early"]]
  /\ next_job' = [next_job EXCEPT ![h] = @ + 1]
  /\ UNCHANGED <<max_workers, ports, scan_stats, call_pc, future,
                 collected, open_ports, call_tmp, result, attempts>>
  /\ UNCHANGED <<riskVars, triageVars, reportVars, mainVars, cidrVars, summaryVars>>

\* The work item is finished: the future holds (port, is_open) and the
\* thread is free again.
Freed(wk) == [st |-> "freed", job |-> 0, tmp |-> 0, elapsed |-> FALSE, reuse |-> "none"]

\* A probe that raised is attempted again by the same thread.
Connect_retry(h, w, outcome) ==
  /\ Running(h)
  /\ worker[h][w].st = "connect"
  /\ IF outcome = "error"
     THEN /\ Len(attempts[h][worker[h][w].job]) < 2
          /\ UNCHANGED <<future, worker>>
     ELSE /\ worker' = [worker EXCEPT ![h][w] =
                 [@ EXCEPT !.st = IF outcome = "open" THEN "inc_open" ELSE "inc_closed",
                           !.tmp = scan_stats.ports_checked]]
          /\ UNCHANGED future
  /\ attempts' = [attempts EXCEPT ![h][worker[h][w].job] = Append(@, outcome)]
  /\ UNCHANGED <<max_workers, ports, scan_stats, call_pc, next_job,
                 collected, open_ports, call_tmp, result>>
  /\ UNCHANGED <<riskVars, triageVars, reportVars, mainVars, cidrVars, summaryVars>>

\* safe_tcp_connect up to the read of ports_checked.  connect_ex returns 0
\* ("open"), returns an error code ("closed": refused or timed out), or
\* socket()/connect_ex raises ("error"): the except clauses return
\* (port, False) at once.
Connect(h, w, outcome) ==
  /\ Running(h)
  /\ worker[h][w].st = "connect"
  /\ IF outcome = "error"
     THEN /\ future' = [future EXCEPT ![h][worker[h][w].job] = "closed"]
          /\ worker' = [worker EXCEPT ![h][w] = Freed(@)]
     ELSE /\ worker' = [worker EXCEPT ![h][w] =
                 [@ EXCEPT !.st = IF outcome = "open" THEN "inc_open" ELSE "inc_closed",
                           !.tmp = scan_stats.ports_checked]]
          /\ UNCHANGED future
  /\ attempts' = [attempts EXCEPT ![h][worker[h][w].job] = Append(@, outcome)]
  /\ UNCHANGED <<max_workers, ports, scan_stats, call_pc, next_job,
                 collected, open_ports, call_tmp, result>>
  /\ UNCHANGED <<riskVars, triageVars, reportVars, mainVars, cidrVars, summaryVars>>

\* self.scan_stats['ports_checked'] += 1: the store of the value read plus
\* one.  A closed port returns (port, False) next.
StoreChecked(h, w) ==
  /\ Running(h)
  /\ worker[h][w].st \in {"inc_open", "inc_closed"}
  /\ scan_stats' = [scan_stats EXCEPT !.ports_checked = worker[h][w].tmp + 1]
  /\ IF worker[h][w].st = "inc_closed"
     THEN /\ future' = [future EXCEPT ![h][worker[h][w].job] = "closed"]
          /\ worker' = [worker EXCEPT ![h][w] = Freed(@)]
     ELSE /\ worker' = [worker EXCEPT ![h][w] = [@ EXCEPT !.st = "ld_found", !.tmp = 0]]
          /\ UNCHANGED future
  /\ UNCHANGED <<max_workers, ports, call_pc, next_job,
                 collected, open_ports, call_tmp, result, attempts>>
  /\ UNCHANGED <<riskVars, triageVars, reportVars, mainVars, cidrVars, summaryVars>>

\* self.scan_stats['open_ports_found'] += 1: the read.
LoadFound(h, w) ==
  /\ Running(h)
  /\ worker[h][w].st = "ld_found"
  /\ worker' = [worker EXCEPT ![h][w] =
       [@ EXCEPT !.st = "st_found", !.tmp = scan_stats.open_ports_found]]
  /\ UNCHANGED <<max_workers, ports, scan_stats, call_pc, next_job, future,
                 collected, open_ports, call_tmp, result, attempts>>
  /\ UNCHANGED <<riskVars, triageVars, reportVars, mainVars, cidrVars, summaryVars>>

\* ... and the store; then return (port, True).
StoreFound(h, w) ==
  /\ Running(h)
  /\ worker[h][w].st = "st_found"
  /\ scan_stats' = [scan_stats EXCEPT !.open_ports_found = worker[h][w].tmp + 1]
  /\ future' = [future EXCEPT ![h][worker[h][w].job] = "open"]
  /\ worker' = [worker EXCEPT ![h][w] = Freed(@)]
  /\ UNCHANGED <<max_workers, ports, call_pc, next_job,
                 collected, open_ports, call_tmp, result, attempts>>
  /\ UNCHANGED <<riskVars, triageVars, reportVars, mainVars, cidrVars, summaryVars>>

\* One iteration of `for future in as_completed(futures)`: a finished
\* future is yielded, its port appended if open, and the calling thread
\* goes to time.sleep(delay).
Collect(h, i) ==
  /\ call_pc[h] = "wait"
  /\ i \in DOMAIN future[h]
  /\ i \notin collected[h]
  /\ future[h][i] # "pending"
  /\ collected' = [collected EXCEPT ![h] = @ \cup {i}]
  /\ open_ports' = [open_ports EXCEPT ![h] =
       IF future[h][i] = "open" THEN Append(@, ports[i]) ELSE @]
  /\ call_pc' = [call_pc EXCEPT ![h] = "sleep"]
  /\ UNCHANGED <<max_workers, ports, scan_stats, next_job, worker, future,
                 call_tmp, result, attempts>>
  /\ UNCHANGED <<riskVars, triageVars, reportVars, mainVars, cidrVars, summaryVars>>

\* One delay of time passes: every thread in time.sleep(delay) becomes
\* runnable, and every free worker thread has now been free for a delay.
Tick ==
  /\ \E h \in Hosts : Running(h)
  /\ call_pc' = [h \in Hosts |-> IF call_pc[h] = "sleep" THEN "wait" ELSE call_pc[h]]
  /\ worker' = [h \in Hosts |-> [w \in DOMAIN worker[h] |->
       IF worker[h][w].st = "freed" /\ next_job[h] <= Len(ports)
       THEN [worker[h][w] EXCEPT !.elapsed = TRUE]
       ELSE worker[h][w]]]
  /\ UNCHANGED <<max_workers, ports, scan_stats, next_job, future,
                 collected, open_ports, call_tmp, result, attempts>>
  /\ UNCHANGED <<riskVars, triageVars, reportVars, mainVars, cidrVars, summaryVars>>

\* The loop is over and the `with` block has shut the executor down;
\* self.scan_stats['hosts_scanned'] += 1: the read.
LoadHosts(h) ==
  /\ call_pc[h] = "wait"
  /\ collected[h] = DOMAIN future[h]
  /\ call_tmp' = [call_tmp EXCEPT ![h] = scan_stats.hosts_scanned]
  /\ call_pc' = [call_pc EXCEPT ![h] = "st_hosts"]
  /\ UNCHANGED <<max_workers, ports, scan_stats, next_job, worker, future,
                 collected, open_ports, result, attempts>>
  /\ UNCHANGED <<riskVars, triageVars, reportVars, mainVars, cidrVars, summaryVars>>

\* ... the store, and `return sorted(open_ports)`.
ReturnScan(h) ==
  /\ call_pc[h] = "st_hosts"
  /\ scan_stats' = [scan_stats EXCEPT !.hosts_scanned = call_tmp[h] + 1]
  /\ result' = [result EXCEPT ![h] = sorted(open_ports[h])]
  /\ call_pc' = [call_pc EXCEPT ![h] = "returned"]
  /\ call_tmp' = [call_tmp EXCEPT ![h] = 0]
  /\ UNCHANGED <<max_workers, ports, next_job, worker, future,
                 collected, open_ports, attempts>>
  /\ UNCHANGED <<riskVars, triageVars, reportVars, mainVars, cidrVars, summaryVars>>

NextScan ==
  \/ \E h \in Hosts : StartCall(h)
  \/ \E h \in Hosts : \E w \in DOMAIN worker[h] : StartProbe(h, w)
  \/ \E h \in Hosts : \E w \in DOMAIN worker[h] :
       \E outcome \in {"open", "closed", "error"} : Connect(h, w, outcome)
  \/ \E h \in Hosts : \E w \in DOMAIN worker[h] : StoreChecked(h, w)
  \/ \E h \in Hosts : \E w \in DOMAIN worker[h] : LoadFound(h, w)
  \/ \E h \in Hosts : \E w \in DOMAIN worker[h] : StoreFound(h, w)
  \/ \E h \in Hosts : \E i \in 1..Len(ports) : Collect(h, i)
  \/ Tick
  \/ \E h \in Hosts : LoadHosts(h)
  \/ \E h \in Hosts : ReturnScan(h)

SpecScan == InitScan /\ [][NextScan]_vars

\* ------------------------------------------------------------------------
\* SpecPool: main_backup.py submits one scan_host call per host to its own
\* ThreadPoolExecutor(max_workers=MAX_THREADS), all on one scanner built
\* with max_workers=MAX_THREADS.  PORTS is a prefix of the default list.
\* ------------------------------------------------------------------------
DefaultPorts == <<22, 80, 443, 3389>>

InitPool ==
  /\ CidrIdle
  /\ SummaryIdle
  /\ RiskIdle
  /\ TriageIdle
  /\ MainIdle
  /\ ReportIdle
  /\ max_workers \in 1..MaxWorkers
  /\ ports \in {SubSeq(DefaultPorts, 1, n) : n \in 1..MaxPoolPorts}
  /\ ScanStart(Hosts)

SpecPool == InitPool /\ [][NextScan]_vars

\* ------------------------------------------------------------------------
\* SpecMain: one orchestrated run, from the host list to the list of
\* assessments.  main.py scans port by port and host by host; main_backup.py
\* handles the hosts in the order their scans complete.
\* ------------------------------------------------------------------------
NetPorts == {SSH_PORT, HTTP_PORT, SMB_PORT, RDP_PORT}

\* The usable addresses of 10.0.0.0/30.
DemoTargets == << <<10, 0, 0, 1>>, <<10, 0, 0, 2>> >>

\* What a banner connection may receive.
Receptions == {{"fail"}, {"SSH-2.0"}, {"NLA"}, {"text"}}

OpenCount(net) ==
  Cardinality({hp \in (DOMAIN net) \X NetPorts : hp[2] \in net[hp[1]]})

\* What scan_host(host, plist) returns once every probe has completed, on a
\* network where exactly the ports of `open` accept.
ScanResult(plist, open) == sorted(SelectSeq(plist, LAMBDA p : p \in open))

\* main.py: `for port in PORTS: if scanner.scan_host(host, [port])`, the
\* ports whose one-port scan is non-empty, in PORTS order.
PortByPortResult(plist, open) ==
  SelectSeq(plist, LAMBDA p : ScanResult(<<p>>, open) # <<>>)

\* main_backup.py: `if port in [22, 3389, 445, 21, 23, 80, 443]`
DeepTriagePorts == {22, 3389, 445, 21, 23, 80, 443}

\* The assessments appended for one host: one per open port, on the
\* one-element list [port].  main.py triages every open port, main_backup.py
\* those of DeepTriagePorts.
HostAssessments(variant, ip, found, received, now) ==
  [i \in 1..Len(found) |->
    assess_exposure(ip, <<found[i]>>,
      IF variant = "main" \/ found[i] \in DeepTriagePorts
      THEN triage_service(ip, found[i], received[i])
      ELSE NoTriage,
      now)]

\* The list of assessments as the reporter receives it.
Findings(batch) == [i \in 1..Len(batch) |-> enhanced_finding(batch[i])]

\* The range strings of a run: 10.0.0.0/30, "10.0.0.256/30" and "invalid".
NetworkCidrs ==
  { [addr |-> <<10, 0, 0, 0>>, rest |-> <<30>>],
    [addr |-> <<10, 0, 0, 256>>, rest |-> <<30>>],
    [addr |-> <<NotANumber>>, rest |-> <<>>] }

\* The baseline an earlier run left in the reports directory: written at
\* second 0 from a batch with port 22 open on 10.0.0.1.
PreviousWrite ==
  [path |-> BaselinePath(0),
   batch |-> Findings(HostAssessments("main_backup", DemoTargets[1], <<SSH_PORT>>,
                                      << {"fail"} >>, 0)),
   at |-> 0]

InitMain ==
  /\ CidrIdle
  /\ SummaryIdle
  /\ RiskIdle
  /\ TriageIdle
  /\ ScanIdle
  /\ clock = 1
  /\ reporters = <<>>
  /\ written \in {<<>>, <<PreviousWrite>>}
  /\ output_dir = [f \in {written[i].path : i \in 1..Len(written)} |->
                     Baseline(PreviousWrite.batch, PreviousWrite.at)]
  /\ drift = NoCall
  /\ m_variant \in {"main", "main_backup"}
  /\ m_pc = "start"
  /\ PORTS \in IF m_variant = "main"
               THEN {DefaultPorts}
               ELSE {DefaultPorts, <<SSH_PORT, RDP_PORT, SMB_PORT>>}
  /\ NETWORK_CIDR \in NetworkCidrs
  /\ targets = <<>>
  /\ net_open \in {net \in [DOMAIN DemoTargets -> SUBSET NetPorts] : OpenCount(net) <= MaxNetOpen}
  /\ late \in SUBSET (DOMAIN DemoTargets)
  /\ processed = {}
  /\ probes_sent = 0
  /\ assessments = <<>>
  /\ m_summary = NoSummary
  /\ report_files = {}

\* targets[:n]
FirstN(xs, n) == SubSeq(xs, 1, IF Len(xs) < n THEN Len(xs) ELSE n)

\* The run goes on to the scan loop whatever validate_cidr returned.
ResolveTargets_noexit ==
  /\ m_pc = "start"
  /\ reporters' = Append(reporters, clock)
  /\ targets' = FirstN(validate_cidr(NETWORK_CIDR), IF m_variant = "main" THEN 5 ELSE 10)
  /\ m_pc' = "scan"
  /\ UNCHANGED <<m_variant, PORTS, net_open, processed, assessments,
                 NETWORK_CIDR, late, probes_sent, m_summary, report_files>>
  /\ UNCHANGED <<clock, output_dir, written, drift>>
  /\ UNCHANGED <<riskVars, triageVars, scanVars, cidrVars, summaryVars>>

\* The components are built, SOCReporter() among them, then the range is
\* expanded: main.py keeps the first 5 hosts, main_backup.py the first 10.
\* `if not targets: sys.exit(1)`.
ResolveTargets ==
  /\ m_pc = "start"
  /\ reporters' = Append(reporters, clock)
  /\ targets' = FirstN(validate_cidr(NETWORK_CIDR), IF m_variant = "main" THEN 5 ELSE 10)
  /\ m_pc' = IF targets' = <<>> THEN "exit_1" ELSE "scan"
  /\ UNCHANGED <<m_variant, PORTS, net_open, processed, assessments,
                 NETWORK_CIDR, late, probes_sent, m_summary, report_files>>
  /\ UNCHANGED <<clock, output_dir, written, drift>>
  /\ UNCHANGED <<riskVars, triageVars, scanVars, cidrVars, summaryVars>>

\* future.result(timeout=...) on a future: its value when the call has
\* finished, TimeoutError when it has not and the wait exceeds the timeout.
FutureResult(finished, exceeds, value) ==
  IF finished THEN [raised |-> "nothing", value |-> value]
  ELSE IF exceeds THEN [raised |-> "TimeoutError", value |-> <<>>]
  ELSE [raised |-> "nothing", value |-> value]

\* The body of the host loop for target number h.  main.py calls scan_host
\* itself and waits for it; main_backup.py takes the futures from
\* as_completed, which yields a future once its scan_host call has
\* finished, however long it took, and then asks it for its result.
ProcessHost(h) ==
  /\ m_pc = "scan"
  /\ h \in DOMAIN targets
  /\ h \notin processed
  /\ m_variant = "main" => \A g \in 1..(h - 1) : g \in processed
  /\ LET outcome == IF m_variant = "main"
                    THEN [raised |-> "nothing", value |-> PortByPortResult(PORTS, net_open[h])]
                    ELSE FutureResult(TRUE, h \in late, ScanResult(PORTS, net_open[h]))
         found == outcome.value
     IN  IF outcome.raised = "TimeoutError"
         THEN UNCHANGED assessments
         ELSE \E received \in [1..Len(found) -> Receptions] :
                assessments' = assessments \o
                  HostAssessments(m_variant, targets[h], found, received, clock)
  /\ processed' = processed \cup {h}
  /\ probes_sent' = probes_sent + Len(PORTS)
  /\ UNCHANGED <<m_variant, m_pc, PORTS, targets, net_open,
                 NETWORK_CIDR, late, m_summary, report_files>>
  /\ UNCHANGED <<riskVars, triageVars, reportVars, scanVars, cidrVars, summaryVars>>

\* Every host has been handled: the scan loop is left.
FinishScan ==
  /\ m_pc = "scan"
  /\ processed = DOMAIN targets
  /\ m_pc' = "scanned"
  /\ UNCHANGED <<m_variant, PORTS, targets, net_open, processed, assessments,
                 NETWORK_CIDR, late, probes_sent, m_summary, report_files>>
  /\ UNCHANGED <<riskVars, triageVars, reportVars, scanVars, cidrVars, summaryVars>>

\* `if assessments: summary = risk_engine.generate_executive_summary(...)`;
\* with no assessment nothing is summarised or reported.
Summarize ==
  /\ m_pc = "scanned"
  /\ IF assessments # <<>>
     THEN /\ m_summary' = generate_executive_summary(assessments)
          /\ m_pc' = "report"
     ELSE /\ m_pc' = "done"
          /\ UNCHANGED m_summary
  /\ UNCHANGED <<m_variant, PORTS, targets, net_open, processed, assessments,
                 NETWORK_CIDR, late, probes_sent, report_files>>
  /\ UNCHANGED <<riskVars, triageVars, reportVars, scanVars, cidrVars, summaryVars>>

\* The names of the files _write_json, _write_csv and _write_html create.
ReportPaths(timestamp) ==
  {<<"sentinel_", timestamp, ext>> : ext \in {".json", ".csv", ".html"}}

\* reporter.generate_reports(assessments, summary): the three report files,
\* then the baseline of this batch.  main.py is done after it,
\* main_backup.py goes on to detect_drift.
GenerateReports ==
  /\ m_pc = "report"
  /\ report_files' = report_files \cup ReportPaths(reporters[1])
  /\ LET path == BaselinePath(reporters[1])
         batch == Findings(assessments)
     IN  /\ output_dir' = [f \in DOMAIN output_dir \cup {path} |->
                             IF f = path THEN Baseline(batch, clock) ELSE output_dir[f]]
         /\ written' = Append(written, [path |-> path, batch |-> batch, at |-> clock])
  /\ m_pc' = IF m_variant = "main" THEN "done" ELSE "drift"
  /\ UNCHANGED <<m_variant, PORTS, targets, net_open, processed, assessments,
                 NETWORK_CIDR, late, probes_sent, m_summary>>
  /\ UNCHANGED <<clock, reporters, drift>>
  /\ UNCHANGED <<riskVars, triageVars, scanVars, cidrVars, summaryVars>>

\* main_backup.py: drift_result = reporter.detect_drift(assessments), right
\* after generate_reports.
CheckDrift ==
  /\ m_pc = "drift"
  /\ drift' = [calls |-> "first",
               current |-> Findings(assessments),
               read |-> ReadWrite,
               result |-> detect_drift(output_dir, Findings(assessments), clock)]
  /\ m_pc' = "done"
  /\ UNCHANGED <<m_variant, PORTS, targets, net_open, processed, assessments,
                 NETWORK_CIDR, late, probes_sent, m_summary, report_files>>
  /\ UNCHANGED <<clock, reporters, output_dir, written>>
  /\ UNCHANGED <<riskVars, triageVars, scanVars, cidrVars, summaryVars>>

NextMain ==
  \/ ResolveTargets
  \/ \E h \in DOMAIN targets : ProcessHost(h)
  \/ FinishScan
  \/ Summarize
  \/ GenerateReports
  \/ CheckDrift

SpecMain == InitMain /\ [][NextMain]_vars

\* ------------------------------------------------------------------------
\* Claims on the orchestrated run
\* ------------------------------------------------------------------------
AssessmentsOf(ip) == SelectSeq(assessments, LAMBDA a : a.ip = ip)

\* C6: in an orchestrated run over a host on which 22, 3389 and 445 are all
\* open, the run yields exactly one assessment for that host, with three
\* MITRE findings and true_risk CRITICAL (the compound rule).
C6_OneCriticalAssessment ==
  m_pc = "scanned" =>
    \A h \in DOMAIN targets :
      {SSH_PORT, RDP_PORT, SMB_PORT} \subseteq net_open[h] =>
        LET mine == AssessmentsOf(targets[h])
        IN  /\ Len(mine) = 1
            /\ Len(mine[1].mitre_findings) = 3
            /\ mine[1].true_risk = "CRITICAL"

\* ------------------------------------------------------------------------
\* Claims on the scanner
\* ------------------------------------------------------------------------
StrictlyAscending(s) == \A i \in 1..(Len(s) - 1) : s[i] < s[i + 1]

\* C1: for any ports list (duplicates included) and any completion order,
\* scan_host returns the open ports strictly ascending, no port twice.
C1_SortedDeduplicated ==
  \A h \in Hosts : call_pc[h] = "returned" => StrictlyAscending(result[h])

Quiescent == \A h \in Hosts : ~Running(h)

CompletedCalls == Cardinality({h \in Hosts : call_pc[h] = "returned"})

FuturesIn(states) ==
  Cardinality({hi \in Hosts \X (1..MaxPorts) :
                 /\ hi[2] \in DOMAIN future[hi[1]]
                 /\ future[hi[1]][hi[2]] \in states})

\* C2: once the running scan_host calls have completed, hosts_scanned is
\* the number of completed calls, ports_checked the number of completed
\* probes whatever their outcome, and open_ports_found the number of probes
\* that found the port open.
C2_StatsExact ==
  Quiescent =>
    /\ scan_stats.hosts_scanned = CompletedCalls
    /\ scan_stats.ports_checked = FuturesIn({"open", "closed"})
    /\ scan_stats.open_ports_found = FuturesIn({"open"})

\* C3: a probe never starts on a worker slot freed by a completed probe
\* before the delay has elapsed since that completion.
C3_DelayBeforeSlotReuse ==
  \A h \in Hosts : \A w \in DOMAIN worker[h] : worker[h][w].reuse # "early"

InFlight ==
  Cardinality({hw \in Hosts \X (1..MaxWorkers) :
                 /\ hw[2] \in DOMAIN worker[hw[1]]
                 /\ worker[hw[1]][hw[2]].st = "connect"})

\* C4: the probes in flight, summed over all hosts being scanned, never
\* exceed the configured maximum worker count.
C4_SharedCeiling == InFlight <= max_workers

\* ------------------------------------------------------------------------
\* Claims on assess_exposure
\* ------------------------------------------------------------------------
Returned == rk_pc = "returned"

CompoundApplies == InSeq(RDP_PORT, rk_open_ports) /\ InSeq(SMB_PORT, rk_open_ports)

\* C5: whenever open_ports contains both 3389 and 445, initial_risk is
\* CRITICAL, whatever else is open and whatever the score.
C5_CompoundIsCritical ==
  (Returned /\ CompoundApplies) => rk_result.initial_risk = "CRITICAL"

C5_Witness ==
  /\ Returned
  /\ CompoundApplies
  /\ InSeq(UNMAPPED_PORT, rk_open_ports)
  /\ rk_result.initial_risk = "CRITICAL"

\* The weights as the claim gives them.
ClaimWeight(sev) ==
  CASE sev = "LOW" -> 1 [] sev = "MEDIUM" -> 3 [] sev = "HIGH" -> 6 [] sev = "CRITICAL" -> 10

InTable(p) == p \in DOMAIN MITRE_ATTACK_MAP

RECURSIVE WeightSum(_)
WeightSum(s) ==
  IF s = <<>> THEN 0
  ELSE (IF InTable(Head(s)) THEN ClaimWeight(MITRE_ATTACK_MAP[Head(s)].risk) ELSE 0)
       + WeightSum(Tail(s))

\* C7: risk_score is the sum of the severity weights of the open ports that
\* are in the MITRE table; there is exactly one finding per such port, in
\* open_ports order; a port not in the table stays in open_ports, has no
\* finding and adds nothing to the score.
C7_ScoreAndFindings ==
  Returned =>
    LET mapped == SelectSeq(rk_open_ports, InTable)
        f == rk_result.mitre_findings
    IN  /\ rk_result.risk_score = WeightSum(rk_open_ports)
        /\ Len(f) = Len(mapped)
        /\ \A i \in 1..Len(f) :
             /\ f[i].port = mapped[i]
             /\ f[i].risk = MITRE_ATTACK_MAP[mapped[i]].risk
        /\ rk_result.open_ports = rk_open_ports
        /\ \A i \in 1..Len(f) : f[i].port # UNMAPPED_PORT

C7_Witness ==
  /\ Returned
  /\ rk_open_ports = <<SSH_PORT, UNMAPPED_PORT, HTTP_PORT>>
  /\ rk_result.risk_score = 9
  /\ Len(rk_result.mitre_findings) = 2

\* C8: when the compound rule does not apply, initial_risk is CRITICAL for
\* a score >= 15, HIGH for 10..14, MEDIUM for 5..9 and LOW below 5.
C8_Thresholds ==
  (Returned /\ ~CompoundApplies) =>
    LET sc == rk_result.risk_score
        r == rk_result.initial_risk
    IN  /\ (sc >= 15) => r = "CRITICAL"
        /\ (sc >= 10 /\ sc < 15) => r = "HIGH"
        /\ (sc >= 5 /\ sc < 10) => r = "MEDIUM"
        /\ (sc < 5) => r = "LOW"

C8_Witness ==
  /\ Returned
  /\ ~CompoundApplies
  /\ rk_result.risk_score = 15
  /\ rk_result.initial_risk = "CRITICAL"

\* C9: every returned assessment has true_risk = initial_risk when
\* risk_adjusted is false, and a present, non-empty adjustment_reason when
\* risk_adjusted is true.
C9_AdjustmentInvariant ==
  Returned =>
    /\ (~rk_result.risk_adjusted) => rk_result.true_risk = rk_result.initial_risk
    /\ rk_result.risk_adjusted => rk_result.adjustment_reason \notin {ABSENT, NONE, ""}

\* The final_risk value the evidence carries, NONE when it carries none.
EvidenceFinalRisk ==
  IF rk_triage.final_risk = ABSENT THEN NONE ELSE rk_triage.final_risk

\* C10: the assessment is adjusted exactly when the evidence carries a
\* final_risk value: without evidence or with final_risk unset (None),
\* true_risk = initial_risk and risk_adjusted is false; with final_risk
\* set, true_risk is that value and risk_adjusted is true.
C10_AdjustedIffFinalRiskSet ==
  Returned =>
    IF EvidenceFinalRisk = NONE
    THEN rk_result.true_risk = rk_result.initial_risk /\ ~rk_result.risk_adjusted
    ELSE rk_result.true_risk = EvidenceFinalRisk /\ rk_result.risk_adjusted

\* ------------------------------------------------------------------------
\* Claims on triage_service
\* ------------------------------------------------------------------------
Triaged == tr_pc = "returned"

\* The banner connection delivered a non-empty text.
BannerObtained == tr_received \notin {{"fail"}, {}}

\* The locality classes as the claims name them: loopback block, private
\* ranges, any other address, and a string that is no address.
ClaimLocality(ip) ==
  IF ~(Len(ip) = 4 /\ \A i \in 1..4 : ip[i] >= 0 /\ ip[i] <= 255) THEN "Unknown"
  ELSE IF ip[1] = 127 THEN "Loopback"
  ELSE IF \/ ip[1] = 10
          \/ ip[1] = 172 /\ ip[2] >= 16 /\ ip[2] <= 31
          \/ ip[1] = 192 /\ ip[2] = 168 THEN "Internal"
  ELSE "External"

\* The banner text holds NLA, SSL or SECURE in either case.
ClaimHardened == tr_received \cap {"NLA", "nla", "SSL", "SECURE"} # {}

\* C11: for port 3389 with a banner obtained, a banner holding NLA, SSL or
\* SECURE (case-insensitively) gives final_risk MEDIUM on an Internal
\* address and a tier above MEDIUM and below CRITICAL on an External one;
\* a banner holding none of them gives CRITICAL on every address.
C11_RdpHardening ==
  (Triaged /\ tr_port = RDP_PORT /\ BannerObtained) =>
    IF ClaimHardened
    THEN /\ ClaimLocality(tr_ip) = "Internal" => tr_result.final_risk = "MEDIUM"
         /\ ClaimLocality(tr_ip) = "External" => tr_result.final_risk \in {"MEDIUM_HIGH", "HIGH"}
    ELSE tr_result.final_risk = "CRITICAL"

\* C12: for port 22 with a banner obtained, a banner with the SSH-1.x
\* marker gives final_risk HIGH on every address; a banner with the SSH-2.0
\* marker gives MEDIUM on an Internal address and HIGH on an External one.
C12_SshVersion ==
  (Triaged /\ tr_port = SSH_PORT /\ BannerObtained) =>
    /\ "SSH-1." \in tr_received => tr_result.final_risk = "HIGH"
    /\ "SSH-2.0" \in tr_received =>
         /\ ClaimLocality(tr_ip) = "Internal" => tr_result.final_risk = "MEDIUM"
         /\ ClaimLocality(tr_ip) = "External" => tr_result.final_risk = "HIGH"

\* C13: triage_service on port 445 returns a final_risk of HIGH or
\* CRITICAL, for every address and whether or not a banner was obtained.
C13_SmbAtLeastHigh ==
  (Triaged /\ tr_port = SMB_PORT) => tr_result.final_risk \in {"HIGH", "CRITICAL"}

\* C14: every evidence record returned by triage_service whose final_risk
\* is set has a non-empty adjustment_reason.
C14_ReasonWheneverRisk ==
  (Triaged /\ tr_result.final_risk # NONE) =>
    tr_result.adjustment_reason \notin {ABSENT, NONE, ""}

\* The network context the returned record carries.
ResultContext ==
  IF tr_engine = "live" THEN tr_result.network_context
  ELSE tr_result.details.network_context

\* C16: the locality classification never fails, and gives Loopback for a
\* loopback address, Internal for a private-range address, External for
\* any other valid address and Unknown for a malformed address string.
C16_LocalityClasses ==
  /\ tr_pc # "raised"
  /\ Triaged =>
       ResultContext = (CASE ClaimLocality(tr_ip) = "Loopback" -> "Loopback_Network"
                          [] ClaimLocality(tr_ip) = "Internal" -> "Internal_Network"
                          [] ClaimLocality(tr_ip) = "External" -> "External_Network"
                          [] OTHER -> "Unknown")

\* ------------------------------------------------------------------------
\* Claims on the orchestrator's use of triage
\* ------------------------------------------------------------------------
\* The deep-dive set as the claim lists it: remote desktop, remote shell,
\* file sharing, FTP, Telnet and VNC.
ClaimDeepDivePorts == {RDP_PORT, SSH_PORT, SMB_PORT, 21, 23, VNC_PORT}

\* C15: the orchestrator triages only the open ports of the deep-dive set;
\* every other open port (80, 443) is assessed with no evidence, so its
\* assessment has risk_adjusted = false.
C15_TriageOnlyDeepDive ==
  \A i \in 1..Len(assessments) :
    (\A j \in 1..Len(assessments[i].open_ports) :
        assessments[i].open_ports[j] \notin ClaimDeepDivePorts)
      => ~assessments[i].risk_adjusted

\* ------------------------------------------------------------------------
\* Claims on the reporter
\* ------------------------------------------------------------------------
\* d[key] on a dict given with its key order.
Get(d, key) == d[CHOOSE i \in 1..Len(d) : d[i][1] = key][2]

DriftCalled == drift.calls # "none"

\* The batch the baseline read by the last detect_drift call was written
\* from, and the dict that write stored.
BaselineBatch == written[drift.read].batch

BaselineRead == Baseline(written[drift.read].batch, written[drift.read].at)

\* The open-ports lists a batch holds for one address.
PortsOf(batch, ip) ==
  {Get(batch[i], "open_ports") : i \in {j \in 1..Len(batch) : Get(batch[j], "ip") = ip}}

BatchIPs(batch) == {Get(batch[i], "ip") : i \in 1..Len(batch)}

DiffersInOpenPorts(c, b) ==
  \E ip \in BatchIPs(c) \cup BatchIPs(b) : PortsOf(c, ip) # PortsOf(b, ip)

\* C17: with the latest baseline written from batch B, detect_drift(C)
\* reports drift_detected = false and host_delta = 0 when C is B itself, on
\* every call; drift_detected = true when C differs from B in some host's
\* open ports; and always host_delta = len(C) - host_count of the baseline.
C17_DriftAgainstBaseline ==
  (DriftCalled /\ drift.read # 0) =>
    /\ drift.current = BaselineBatch =>
         /\ ~drift.result.drift_detected
         /\ drift.result.host_delta = 0
    /\ DiffersInOpenPorts(drift.current, BaselineBatch) => drift.result.drift_detected
    /\ drift.result.host_delta = Len(drift.current) - BaselineRead.host_count

C17_Witness ==
  /\ drift.calls = "repeated"
  /\ drift.read # 0
  /\ drift.current = BaselineBatch
  /\ drift.current = <<A80, A22>>
  /\ ~drift.result.drift_detected
  /\ drift.result.host_delta = 0

\* C18: every baseline write creates a new file and overwrites none: after
\* n writes, by one reporter or by several, n distinct baseline files
\* exist and each holds the content it was written with.
C18_WritesNeverOverwrite ==
  /\ Cardinality(DOMAIN output_dir) = Len(written)
  /\ \A i \in 1..Len(written) :
       output_dir[written[i].path] = Baseline(written[i].batch, written[i].at)

\* C19: when no baseline has ever been written, detect_drift returns
\* drift_detected = false with an explanatory message, for any batch.
C19_NoBaselineNoDrift ==
  (DriftCalled /\ drift.read = 0) =>
    /\ ~drift.result.drift_detected
    /\ "message" \in DOMAIN drift.result
    /\ drift.result.message # ""

C19_Witness ==
  /\ DriftCalled
  /\ drift.read = 0
  /\ written = <<>>
  /\ drift.current = <<A80_443>>
  /\ ~drift.result.drift_detected

\* A dict without its key order: the function from its keys to its values,
\* the dicts inside it taken the same way.
RECURSIVE Unordered(_)
Unordered(d) ==
  [k \in {d[i][1] : i \in 1..Len(d)} |->
    IF k \in DictKeys THEN Unordered(Get(d, k))
    ELSE IF k \in DictListKeys
      THEN [j \in 1..Len(Get(d, k)) |-> Unordered(Get(d, k)[j])]
    ELSE Get(d, k)]

\* Two batches that differ at most in the order of keys.
SameUpToKeyOrder(c, b) ==
  /\ Len(c) = Len(b)
  /\ \A i \in 1..Len(c) : Unordered(c[i]) = Unordered(b[i])

\* C20: the content hash of a batch does not depend on the order of the
\* keys of an assessment or of a record nested in it: a batch that differs
\* from the baseline's only in key order, at any depth, has the same hash.
C20_HashIgnoresKeyOrder ==
  (DriftCalled /\ drift.read # 0 /\ SameUpToKeyOrder(drift.current, BaselineBatch)) =>
    /\ drift.result.current_hash = drift.result.baseline_hash
    /\ ~drift.result.drift_detected

C20_Witness ==
  /\ DriftCalled
  /\ drift.read # 0
  /\ drift.current = <<Reversed(NestedReversed(A80))>>
  /\ BaselineBatch = <<A80>>
  /\ drift.result.current_hash = drift.result.baseline_hash

\* ------------------------------------------------------------------------
\* Claims on the probes of a scan_host call
\* ------------------------------------------------------------------------
\* The elements of ports whose attempt succeeded, in ports order.
RECURSIVE SucceededUpTo(_)
SucceededUpTo(n) ==
  IF n = 0 THEN <<>>
  ELSE IF attempts[1][n] = <<"open">> THEN Append(SucceededUpTo(n - 1), ports[n])
  ELSE SucceededUpTo(n - 1)

\* C21: within one scan_host call each requested port is probed by exactly
\* one connection attempt; a probe that is refused, times out or raises is
\* classified closed and never retried, and the other ports are still
\* probed: scan_host returns exactly the ports whose one attempt succeeded.
C21_OneAttemptPerPort ==
  /\ \A i \in 1..Len(attempts[1]) : Len(attempts[1][i]) <= 1
  /\ \A i \in 1..Len(attempts[1]) :
       (attempts[1][i] # <<>> /\ attempts[1][i][1] # "open") => future[1][i] # "open"
  /\ call_pc[1] = "returned" =>
       /\ \A i \in 1..Len(ports) : Len(attempts[1][i]) = 1
       /\ \A i \in 1..Len(ports) : attempts[1][i] # <<"open">> => future[1][i] = "closed"
       /\ result[1] = sorted(SucceededUpTo(Len(ports)))

C21_Witness ==
  /\ call_pc[1] = "returned"
  /\ ports = <<SSH_PORT, HTTP_PORT, SSH_PORT>>
  /\ attempts[1] = << <<"error">>, <<"open">>, <<"closed">> >>
  /\ result[1] = <<HTTP_PORT>>

\* ------------------------------------------------------------------------
\* SpecCidr: validate_cidr applied to every range string of the bounded sets
\* ------------------------------------------------------------------------
CidrAddresses ==
  { <<10, 0, 0, 0>>, <<10, 0, 1, 77>>, <<192, 168, 1, 0>>, <<192, 168, 255, 255>>,
    <<10, 0, 0, 256>>, <<10, 0, 0>>, <<NotANumber>> }

CidrRests ==
  {<<>>, <<NotANumber>>, <<30, 1>>} \cup {<<p>> : p \in (32 - MaxHostBits)..33}

InitCidr ==
  /\ RiskIdle
  /\ TriageIdle
  /\ ReportIdle
  /\ ScanIdle
  /\ MainIdle
  /\ SummaryIdle
  /\ vc_pc = "call"
  /\ vc_cidr \in [addr : CidrAddresses, rest : CidrRests]
  /\ vc_result = <<>>

ValidateCidr ==
  /\ vc_pc = "call"
  /\ vc_result' = validate_cidr(vc_cidr)
  /\ vc_pc' = "returned"
  /\ UNCHANGED vc_cidr
  /\ UNCHANGED <<riskVars, triageVars, reportVars, scanVars, mainVars, summaryVars>>

NextCidr == ValidateCidr

SpecCidr == InitCidr /\ [][NextCidr]_vars

\* ------------------------------------------------------------------------
\* SpecSummary: generate_executive_summary applied to every batch of the
\* bounded sets
\* ------------------------------------------------------------------------
\* Assessments as assess_exposure builds them: without evidence, and with
\* the evidence either triage engine returns.
SummaryAssessments ==
  { assess_exposure(<<10, 0, 0, 1>>, <<>>, NoTriage, 0),
    assess_exposure(<<10, 0, 0, 1>>, <<HTTP_PORT>>, NoTriage, 0),
    assess_exposure(<<10, 0, 0, 2>>, <<SSH_PORT, RDP_PORT>>, NoTriage, 0),
    assess_exposure(<<10, 0, 0, 2>>, <<HTTPS_PORT>>,
                    triage_service(<<10, 0, 0, 2>>, HTTPS_PORT, {"fail"}), 0),
    assess_exposure(<<8, 8, 8, 8>>, <<RDP_PORT>>,
                    triage_service(<<8, 8, 8, 8>>, RDP_PORT, {"NLA"}), 0),
    assess_exposure(<<8, 8, 8, 8>>, <<RDP_PORT>>,
                    triage_service_backup(<<8, 8, 8, 8>>, RDP_PORT, {"NLA"}), 0),
    assess_exposure(<<8, 8, 8, 8>>, <<HTTP_PORT>>,
                    triage_service_backup(<<8, 8, 8, 8>>, HTTP_PORT, {"fail"}), 0) }

InitSummary ==
  /\ RiskIdle
  /\ TriageIdle
  /\ ReportIdle
  /\ ScanIdle
  /\ MainIdle
  /\ CidrIdle
  /\ sm_pc = "call"
  /\ sm_assessments \in BoundedSeq(SummaryAssessments, MaxBatch)
  /\ sm_summary = [total_hosts |-> 0]

GenerateExecutiveSummary ==
  /\ sm_pc = "call"
  /\ sm_summary' = generate_executive_summary(sm_assessments)
  /\ sm_pc' = "returned"
  /\ UNCHANGED sm_assessments
  /\ UNCHANGED <<riskVars, triageVars, reportVars, scanVars, mainVars, cidrVars>>

NextSummary == GenerateExecutiveSummary

SpecSummary == InitSummary /\ [][NextSummary]_vars

\* ------------------------------------------------------------------------
\* Claims on the executive summary
\* ------------------------------------------------------------------------
Exposed(batch) == {i \in 1..Len(batch) : Len(batch[i].open_ports) > 0}

\* C23: generate_executive_summary returns total_hosts equal to the number
\* of assessments given and hosts_with_exposure equal to the number of them
\* whose open_ports is non-empty; an assessment without open ports adds one
\* to total_hosts and nothing to hosts_with_exposure.
C23_SummaryCountsHosts ==
  sm_pc = "returned" =>
    /\ sm_summary.total_hosts = Len(sm_assessments)
    /\ sm_summary.hosts_with_exposure = Cardinality(Exposed(sm_assessments))
    /\ sm_summary.total_hosts - sm_summary.hosts_with_exposure =
         Cardinality((1..Len(sm_assessments)) \ Exposed(sm_assessments))

C23_Witness ==
  /\ sm_pc = "returned"
  /\ Len(sm_assessments) = 3
  /\ sm_assessments[1].open_ports = <<SSH_PORT, RDP_PORT>>
  /\ sm_assessments[2].open_ports = <<HTTP_PORT>>
  /\ sm_assessments[3].open_ports = <<>>
  /\ sm_summary.total_hosts = 3
  /\ sm_summary.hosts_with_exposure = 2

\* C30: every assessment built from the evidence a triage engine returned
\* has a true_risk among LOW, MEDIUM, HIGH and CRITICAL, so the four tier
\* counters of every summary add up to total_hosts.
C30_TiersCoverEveryHost ==
  sm_pc = "returned" =>
    /\ \A i \in 1..Len(sm_assessments) : sm_assessments[i].true_risk \in RiskLevels
    /\ sm_summary.critical_hosts + sm_summary.high_hosts
         + sm_summary.medium_hosts + sm_summary.low_hosts = sm_summary.total_hosts

\* ------------------------------------------------------------------------
\* Claims on validate_cidr
\* ------------------------------------------------------------------------
WellFormed(cidr) ==
  /\ Len(cidr.addr) = 4
  /\ \A i \in 1..4 : cidr.addr[i] >= 0 /\ cidr.addr[i] <= 255
  /\ Len(cidr.rest) = 1
  /\ cidr.rest[1] >= 0 /\ cidr.rest[1] <= 32

\* The value of the last two octets of an address.
Low16(ip) == ip[3] * 256 + ip[4]

\* C25: for every IPv4 range of prefix length p <= 30, validate_cidr
\* returns exactly 2^(32-p) - 2 addresses in ascending order, all inside the
\* range and none of them its network or broadcast address.
C25_HostsOfRange ==
  (vc_pc = "returned" /\ WellFormed(vc_cidr) /\ vc_cidr.rest[1] <= 30) =>
    LET size == 2 ^ (32 - vc_cidr.rest[1])
        network == (Low16(vc_cidr.addr) \div size) * size
        broadcast == network + size - 1
    IN  /\ Len(vc_result) = size - 2
        /\ \A i \in 1..Len(vc_result) :
             /\ vc_result[i][1] = vc_cidr.addr[1]
             /\ vc_result[i][2] = vc_cidr.addr[2]
             /\ vc_result[i][3] \in 0..255
             /\ vc_result[i][4] \in 0..255
             /\ Low16(vc_result[i]) > network
             /\ Low16(vc_result[i]) < broadcast
        /\ \A i \in 1..(Len(vc_result) - 1) : Low16(vc_result[i]) < Low16(vc_result[i + 1])

C25_Witness ==
  /\ vc_pc = "returned"
  /\ vc_cidr = [addr |-> <<10, 0, 1, 77>>, rest |-> <<22>>]
  /\ Len(vc_result) = 1022
  /\ vc_result[1] = <<10, 0, 0, 1>>
  /\ vc_result[1022] = <<10, 0, 3, 254>>

\* ------------------------------------------------------------------------
\* Claims on evidence without a banner
\* ------------------------------------------------------------------------
\* C27: when no banner is obtained (failure, timeout, socket error or empty
\* response) triage_service returns normally with the banner absent and
\* leaves final_risk unset, and the assessment built from that evidence has
\* true_risk = initial_risk and risk_adjusted = false.
C27_NoBannerNoOverride ==
  ~BannerObtained =>
    /\ tr_pc # "raised"
    /\ tr_pc \in {"returned", "assessed"} =>
         /\ tr_result.banner = NoBanner
         /\ tr_result.final_risk \in {ABSENT, NONE}
    /\ tr_pc = "assessed" =>
         /\ tr_assessment.true_risk = tr_assessment.initial_risk
         /\ tr_assessment.risk_adjusted = FALSE

\* ------------------------------------------------------------------------
\* Claims on what counts as drift
\* ------------------------------------------------------------------------
\* The exposure a batch states: per assessment the host, its open ports and
\* its risk classifications.
Exposure(batch) ==
  {<<Get(batch[i], "ip"), Get(batch[i], "open_ports"),
     Get(batch[i], "initial_risk"), Get(batch[i], "true_risk")>> : i \in 1..Len(batch)}

\* C28: when the current batch has the same hosts, the same open ports and
\* the same risk classifications as the batch the latest baseline was
\* written from, detect_drift reports drift_detected = false, also when the
\* two batches come from runs at different times or from scans that
\* completed in a different order.
C28_NoDriftWithoutExposureChange ==
  (DriftCalled /\ drift.read # 0 /\ Exposure(drift.current) = Exposure(BaselineBatch)) =>
    ~drift.result.drift_detected

\* ------------------------------------------------------------------------
\* Claims on the orchestrated run
\* ------------------------------------------------------------------------
ScanLoopLeft == m_pc \in {"scanned", "report", "drift", "done"}

\* The ports of PORTS that accept on target h.
OpenOn(h) == {p \in NetPorts : p \in net_open[h] /\ \E i \in 1..Len(PORTS) : PORTS[i] = p}

\* C22: a host whose scan takes longer than the per-host deadline is
\* abandoned: no assessment is produced from its open ports, while every
\* other host is assessed as usual.
C22_LateHostAbandoned ==
  (m_variant = "main_backup" /\ ScanLoopLeft) =>
    \A h \in DOMAIN targets :
      IF h \in late
      THEN AssessmentsOf(targets[h]) = <<>>
      ELSE OpenOn(h) # {} => AssessmentsOf(targets[h]) # <<>>

\* C24: the summary of a run counts hosts: a scanned host without open
\* ports yields an assessment with empty open_ports, total_hosts is the
\* number of hosts scanned and hosts_with_exposure the number of scanned
\* hosts with an open port, at most total_hosts and at most the number of
\* distinct hosts.
C24_SummaryCountsScannedHosts ==
  (m_pc = "done" /\ targets # <<>>) =>
    /\ \A h \in DOMAIN targets :
         OpenOn(h) = {} =>
           \E i \in 1..Len(assessments) :
             assessments[i].ip = targets[h] /\ assessments[i].open_ports = <<>>
    /\ m_summary # NoSummary
    /\ m_summary.total_hosts = Len(targets)
    /\ m_summary.hosts_with_exposure = Cardinality({h \in DOMAIN targets : OpenOn(h) # {}})
    /\ m_summary.hosts_with_exposure <= m_summary.total_hosts

\* A range string ip_network does not accept.
Malformed(cidr) ==
  \/ Len(cidr.addr) # 4
  \/ \E i \in 1..Len(cidr.addr) : cidr.addr[i] < 0 \/ cidr.addr[i] > 255
  \/ Len(cidr.rest) > 1
  \/ Len(cidr.rest) = 1 /\ (cidr.rest[1] < 0 \/ cidr.rest[1] > 32)

\* C26: for a malformed range string validate_cidr returns an empty
\* sequence without raising, and the orchestrator exits with a non-zero
\* status before any probe is sent and without writing a report or a
\* baseline file.
C26_MalformedRangeAborts ==
  (Malformed(NETWORK_CIDR) /\ m_pc # "start") =>
    /\ targets = <<>>
    /\ m_pc = "exit_1"
    /\ probes_sent = 0
    /\ processed = {}
    /\ report_files = {}
    /\ \A i \in 1..Len(written) : written[i] = PreviousWrite
    /\ DOMAIN output_dir \subseteq {PreviousWrite.path}

C26_Witness ==
  /\ m_pc = "exit_1"
  /\ NETWORK_CIDR = [addr |-> <<10, 0, 0, 256>>, rest |-> <<30>>]
  /\ Len(reporters) = 1
  /\ targets = <<>>
  /\ written = <<PreviousWrite>>
  /\ report_files = {}

\* C29: the batch of a run is compared against the baseline a previous run
\* stored: when detect_drift is called the latest baseline is not the one
\* written from the current batch, so an exposure change since the previous
\* run is reported as drift_detected = true.
C29_DriftAgainstPreviousRun ==
  (/\ m_variant = "main_backup"
   /\ m_pc = "done"
   /\ assessments # <<>>
   /\ written # <<>>
   /\ written[1] = PreviousWrite
   /\ Exposure(Findings(assessments)) # Exposure(PreviousWrite.batch)) =>
    /\ DriftCalled
    /\ drift.read = 1
    /\ drift.result.drift_detected

====
